---- MODULE Spec2Model ----
(***************************************************************************)
(* State-machine model of the SlotMachine application of                   *)
(* src/contract/contract.py: the bank ledger (BankManager), the wager      *)
(* lifecycle (SpinManager._spin, SlotMachine._claim), the ownership gate   *)
(* (Ownable) and the grid / payline resolution (ReelManager, SlotMachine). *)
(*                                                                         *)
(* Execution model.  Every ABI call is one atomic action.  The handler is  *)
(* evaluated statement by statement on a store record; a failed assert, a  *)
(* failed inner payment or an out-of-range array read sets the store's err *)
(* field and every later statement leaves the store alone.  A call whose   *)
(* final store has err set is rolled back as a whole (the host rejects the *)
(* transaction group) and is no step of the state machine; what such a     *)
(* call does is read off the handler's final store.                        *)
(*                                                                         *)
(* Amounts.  All amounts that reach the ledger or the application account  *)
(* are counted in units of 500 microVOI, which divides every one of them   *)
(* (the spin cost 50500, the bootstrap cost 100000 + 17700 + 17300, the    *)
(* amounts of 10**6 and more).  The two box costs that make up the         *)
(* bootstrap cost are kept in microVOI and only their sum is scaled.  The  *)
(* handlers only add, subtract and compare amounts and multiply them by    *)
(* dimensionless factors, so the scaling is exact; it keeps the values     *)
(* inside the model checker's integers.  uint64 overflow aborts a call on  *)
(* the host; no amount reachable within the bounds of the model comes near *)
(* 2^64.                                                                   *)
(***************************************************************************)
EXTENDS Integers, Sequences, FiniteSets, TLC

VARIABLES
  owner,          \* Box "owner" (read with default Global.creator_address)
  bank_balances,  \* Box "bank_balances" (read with default _invalid_balances)
  bet,            \* BoxMap self.bet: bet key -> Bet, defined on the stored keys
  round,          \* Global.round
  blk_seed,       \* block seeds of the finalized rounds stored wagers refer to
  app_balance,    \* spendable balance of the application account
  calls,          \* number of successful bank, ownership and spin calls
  advances,       \* number of times the chain has moved on
  last,           \* transcript of the last call: what was called, how it ended
  token           \* the YieldBearingToken application: its state and account

vars == <<owner, bank_balances, bet, round, blk_seed, app_balance, calls, advances,
          last, token>>

----------------------------------------------------------------------------
(* Bounds of the model *)

\* calls of the share token explored
MaxTokenCalls == 3

\* steps of the chain explored
MaxAdvances == 2

\* successful bootstrap, deposit, owner_deposit, withdraw,
\* transfer_ownership and spin calls explored
MaxCalls == 3

----------------------------------------------------------------------------
(* Program constants *)

MAX_CLAIM_ROUND_DELTA == 1000

\* 1 VOI = 10**6 microVOI, in units of 500 microVOI
VOI == (10^6) \div 500

\* Global.min_balance of the host, in microVOI
min_balance == 100000

\* in microVOI
_ownable_bootstrap_cost == 17300

\* in microVOI
_bank_manager_bootstrap_cost == 17700

\* SlotMachine._bootstrap_cost, in units of 500 microVOI
_bootstrap_cost ==
  (min_balance + _bank_manager_bootstrap_cost + _ownable_bootstrap_cost) \div 500

\* SpinManager._spin_params
max_extra_payment == 1 * VOI

max_payout_multiplier == 10000

round_future_delta == 1

min_bet_amount == 1 * VOI

max_bet_amount == 2000 * VOI

min_bank_amount == 100000 * VOI

_get_max_extra_payment_none == max_extra_payment + max_extra_payment

_get_max_extra_payment == max_extra_payment

\* a cap below the top tier of the payout table
_get_max_payout_multiplier_low == max_payout_multiplier \div 10

_get_max_payout_multiplier == max_payout_multiplier

_get_round_future_delta_none == round_future_delta - 1

_get_round_future_delta == round_future_delta

_get_min_bet_amount_none == min_bet_amount - min_bet_amount

_get_min_bet_amount == min_bet_amount

_get_max_bet_amount == max_bet_amount

_get_min_bank_amount_none == min_bank_amount - min_bank_amount

_get_min_bank_amount == min_bank_amount

_spin_cost == 50500 \div 500

_spin_payline_cost == 30000 \div 500

_get_reel_length == 100

_get_reel_count == 5

_get_reel_window_length == 3

_get_payline_count == 20

----------------------------------------------------------------------------
(* Accounts and inputs *)

creator_address == "creator"

Accounts == {"creator", "alice"}

\* the owner may play as anybody else
Players == Accounts

NoAccount == "none"

\* numeric stand-in of an address where the model needs one
AddressNumber(a) == IF a = "creator" THEN 0 ELSE 1

BetAmounts == {1 * VOI}

\* stakes a caller may pass to spin: none, half the minimum bet, the minimum
\* bet and the maximum bet
AnyBetAmounts == {0, VOI \div 2, 1 * VOI, 2000 * VOI}

\* 1 is a catalog payline; 20 is the first index past the catalog
MaxPaylineIndexes == {1, 20}

Indexes == {0}

\* block seeds a round may get
Seeds == {0, 1}

----------------------------------------------------------------------------
(* Reel store (ReelManager) *)

_get_reels ==
  <<
    "_", "C", "C", "C", "_", "_", "B", "D", "_", "_", "_", "D", "_", "_", "_", "_", "_", "D", "_", "_", "_", "_", "_", "D", "_",
    "_", "D", "B", "D", "D", "C", "C", "_", "D", "_", "C", "_", "D", "_", "_", "A", "D", "_", "D", "_", "C", "B", "_", "C", "_",
    "A", "_", "B", "_", "_", "_", "B", "_", "_", "_", "_", "_", "_", "_", "D", "D", "_", "_", "_", "D", "_", "C", "_", "A", "_",
    "_", "_", "_", "_", "B", "_", "_", "C", "_", "_", "D", "_", "_", "_", "_", "_", "_", "D", "_", "_", "_", "_", "_", "_", "_",
    "C", "_", "A", "_", "_", "_", "_", "_", "C", "_", "_", "D", "C", "_", "_", "_", "_", "_", "B", "_", "_", "B", "_", "C", "D",
    "_", "B", "_", "_", "_", "C", "D", "_", "_", "D", "A", "D", "_", "_", "C", "_", "_", "C", "_", "_", "_", "_", "_", "_", "C",
    "D", "D", "_", "_", "_", "_", "_", "_", "_", "C", "_", "D", "A", "_", "_", "_", "_", "_", "_", "_", "_", "D", "D", "D", "_",
    "_", "_", "_", "C", "D", "D", "D", "_", "_", "_", "D", "B", "_", "_", "_", "_", "B", "D", "_", "_", "B", "_", "_", "_", "_",
    "_", "_", "_", "D", "_", "D", "_", "B", "_", "_", "_", "_", "_", "_", "_", "_", "_", "C", "D", "_", "_", "D", "_", "_", "C",
    "_", "C", "_", "_", "_", "_", "B", "_", "_", "A", "_", "_", "_", "C", "D", "B", "_", "_", "B", "C", "_", "D", "_", "_", "D",
    "_", "_", "C", "D", "_", "C", "_", "_", "_", "_", "_", "_", "_", "_", "_", "D", "_", "_", "_", "A", "_", "D", "C", "_", "_",
    "B", "_", "_", "_", "_", "_", "_", "B", "_", "D", "D", "D", "D", "D", "_", "_", "_", "_", "_", "C", "_", "C", "D", "A", "_",
    "C", "_", "_", "_", "C", "_", "C", "D", "D", "D", "D", "C", "_", "_", "D", "_", "_", "C", "C", "B", "_", "_", "_", "_", "D",
    "_", "B", "_", "_", "B", "_", "_", "_", "_", "_", "_", "D", "_", "_", "_", "_", "_", "_", "B", "D", "_", "_", "_", "_", "_",
    "A", "_", "_", "_", "_", "D", "_", "D", "_", "_", "A", "D", "_", "_", "D", "_", "_", "B", "_", "_", "_", "B", "_", "_", "C",
    "_", "_", "_", "_", "A", "_", "_", "_", "_", "C", "_", "D", "_", "D", "_", "_", "_", "C", "_", "_", "C", "D", "D", "_", "_",
    "_", "_", "_", "_", "_", "_", "_", "_", "_", "_", "_", "_", "_", "_", "_", "_", "_", "C", "C", "_", "_", "_", "D", "C", "_",
    "_", "_", "D", "D", "B", "_", "B", "D", "A", "D", "D", "C", "_", "_", "_", "_", "_", "_", "B", "_", "_", "_", "_", "C", "_",
    "_", "D", "_", "_", "_", "D", "_", "_", "C", "A", "_", "_", "_", "_", "_", "_", "_", "C", "D", "_", "_", "D", "_", "D", "_",
    "C", "_", "_", "_", "_", "_", "_", "_", "B", "D", "_", "C", "_", "D", "B", "A", "_", "B", "D", "D", "_", "_", "C", "D", "_"
  >>

\* reel `index` (0-based) as a sequence of reel_length symbols
_get_reel(index) ==
  SubSeq(_get_reels, index * _get_reel_length + 1, (index + 1) * _get_reel_length)

\* reel_data[lo : hi] of the source (0-based, hi exclusive)
Slice(data, lo, hi) == SubSeq(data, lo + 1, hi)

\* the slice is taken in both cases: at the end of the reel it comes short
_get_reel_window_slice(reel, index) ==
  LET reel_data == _get_reel(reel)
      pos1 == index % _get_reel_length
  IN  SubSeq(reel_data, pos1 + 1,
             IF pos1 + 3 <= _get_reel_length THEN pos1 + 3 ELSE _get_reel_length)

_get_reel_window(reel, index) ==
  LET reel_data == _get_reel(reel)
      reel_length == _get_reel_length
      pos1 == (index + 0) % reel_length
      pos2 == (index + 1) % reel_length
      pos3 == (index + 2) % reel_length
  IN  IF pos1 + 2 = pos3 /\ pos1 + 1 = pos2
        THEN Slice(reel_data, pos1, pos3 + 1)
        ELSE Slice(reel_data, pos1, pos1 + 1)
               \o Slice(reel_data, pos2, pos2 + 1)
               \o Slice(reel_data, pos3, pos3 + 1)

\* A uint64 argument of a read-only method, which any caller may set to any
\* value: n stands for n itself, and for 2^64 - 1 - n when top is set.
UInt64(n) == [top |-> FALSE, n |-> n]

UInt64Top(n) == [top |-> TRUE, n |-> n]

\* (2^64 - 1) % length, computed from 2^64 = ((2^16)^2)^2
MaxUInt64Mod(length) ==
  (((((((2 ^ 16) % length) ^ 2) % length) ^ 2) % length) + length - 1) % length

\* result of a read-only method
Returned(value) == [err |-> "", value |-> value]

Failed(msg) == [err |-> msg, value |-> <<>>]

\* get_reel_window(reel, index): the reel is checked, the index is not; the
\* additions index + 1 and index + 2 of _get_reel_window stop the program
\* when they pass 2^64 - 1.  The window only depends on (index + k) %
\* reel_length, so below that the subroutine is evaluated on an index with
\* the same remainder.
get_reel_window(reel, index) ==
  IF ~(reel < _get_reel_count) THEN Failed("assert failed")
  ELSE IF index.top /\ index.n < 2 THEN Failed("+ overflowed")
  ELSE IF index.top
    THEN Returned(_get_reel_window(reel, (MaxUInt64Mod(_get_reel_length)
                                            + _get_reel_length
                                            - (index.n % _get_reel_length))
                                           % _get_reel_length))
    ELSE Returned(_get_reel_window(reel, index.n))

----------------------------------------------------------------------------
(* Hashing.  sha256 is not computed: a digest is represented by the five   *)
(* 64-bit values that _get_reel_tops reads from it, i.e. the tails of      *)
(* sha256(digest + "1") .. sha256(digest + "5"), and the digest of         *)
(* (block seed || bet key) is looked up in a table of sampled digests.     *)
(* The table is a fixed function of its input, as the hash is.  The        *)
(* samples are the digests of three 32-byte big-endian block seeds with    *)
(* the bet key of the zero address, amount 10**6, max_payline_index 1 and  *)
(* index 0, each tail reduced modulo 288 (a multiple of the 96 reel stops, *)
(* so the stop it yields is the real one): a grid without a win on         *)
(* paylines 0 and 1, a grid with D x3 on payline 0 only, and a grid with   *)
(* D x3 on payline 0 and A x5 on payline 1.                                *)

SampledDigests ==
  << <<15, 150, 118, 219, 126>>,    \* seed 0:        stops 15, 54, 22, 27, 30
     <<36, 129, 37, 279, 196>>,     \* seed 63:       stops 36, 33, 37, 87,  4
     <<242, 227, 34, 156, 225>> >>  \* seed 54555169: stops 50, 35, 34, 60, 33

\* op.sha256(block seed + bet_key); bet_key = <<address, amount, max_payline_index, index>>
sha256_seed_key(seed, bet_key) ==
  SampledDigests[((seed + AddressNumber(bet_key[1]) + bet_key[3] + bet_key[4])
                    % Len(SampledDigests)) + 1]

\* arc4.UInt64.from_bytes(op.sha256(seed + Bytes(str(k)))[-8:]).native, k = 1 .. 5
sha256_tail(hashed, k) == hashed[k]

----------------------------------------------------------------------------
(* Grid resolver (SlotMachine) *)

\* the stop is taken modulo the reel length
_get_reel_tops_full(seed) ==
  [k \in 1 .. 5 |-> sha256_tail(seed, k) % _get_reel_length]

_get_reel_tops(seed) ==
  LET max_reel_stop == _get_reel_length - (_get_reel_window_length + 1)
  IN  [k \in 1 .. 5 |-> sha256_tail(seed, k) % max_reel_stop]

\* the reels are read from the last to the first
_get_grid_reversed(seed) ==
  LET reel_tops == _get_reel_tops(seed)
  IN  _get_reel_window(4, reel_tops[5])
        \o _get_reel_window(3, reel_tops[4])
        \o _get_reel_window(2, reel_tops[3])
        \o _get_reel_window(1, reel_tops[2])
        \o _get_reel_window(0, reel_tops[1])

_get_grid(seed) ==
  LET reel_tops == _get_reel_tops(seed)
  IN  _get_reel_window(0, reel_tops[1])
        \o _get_reel_window(1, reel_tops[2])
        \o _get_reel_window(2, reel_tops[3])
        \o _get_reel_window(3, reel_tops[4])
        \o _get_reel_window(4, reel_tops[5])

----------------------------------------------------------------------------
(* Payline table and matcher (SlotMachine) *)

_get_paylines ==
  <<
    1, 1, 1, 1, 1,
    0, 0, 0, 0, 0,
    2, 2, 2, 2, 2,
    0, 1, 2, 1, 0,
    2, 1, 0, 1, 2,
    0, 1, 1, 2, 2,
    2, 1, 1, 0, 0,
    0, 0, 1, 0, 0,
    2, 2, 1, 2, 2,
    0, 1, 2, 2, 1,
    2, 1, 0, 0, 1,
    1, 0, 0, 0, 1,
    1, 2, 2, 2, 1,
    0, 2, 0, 2, 0,
    2, 0, 2, 0, 2,
    0, 2, 1, 2, 0,
    2, 0, 1, 0, 2,
    0, 0, 1, 2, 2,
    2, 2, 1, 0, 0,
    1, 0, 1, 2, 1
  >>

\* reading the static array past its 100 entries stops the program
_get_payline_in_range(index) == index * 5 + 4 < Len(_get_paylines)

_get_payline(index) ==
  LET start == index * 5
  IN  [i \in 1 .. 5 |-> _get_paylines[start + i]]

_get_grid_payline_symbols(grid, payline_index) ==
  LET payline == _get_payline(payline_index)
  IN  [i \in 1 .. 5 |-> grid[(i - 1) * 3 + payline[i] + 1]]

\* two of a kind pay as well
_get_payout_multiplier_pairs(pm) ==
  IF pm.symbol \in {"A", "B", "C", "D"} /\ pm.count >= 2 THEN 5 ELSE 0

\* one multiplier for every run of three or more
_get_payout_multiplier_flat(pm) ==
  IF pm.symbol \in {"A", "B", "C", "D"} /\ pm.count >= 3 THEN 10 ELSE 0

_get_payout_multiplier(pm) ==
  IF pm.symbol = "A" THEN
    (IF pm.count = 5 THEN 10000 ELSE IF pm.count = 4 THEN 1000
     ELSE IF pm.count = 3 THEN 200 ELSE 0)
  ELSE IF pm.symbol = "B" THEN
    (IF pm.count = 5 THEN 1000 ELSE IF pm.count = 4 THEN 200
     ELSE IF pm.count = 3 THEN 60 ELSE 0)
  ELSE IF pm.symbol = "C" THEN
    (IF pm.count = 5 THEN 500 ELSE IF pm.count = 4 THEN 100
     ELSE IF pm.count = 3 THEN 30 ELSE 0)
  ELSE IF pm.symbol = "D" THEN
    (IF pm.count = 5 THEN 250 ELSE IF pm.count = 4 THEN 55
     ELSE IF pm.count = 3 THEN 10 ELSE 0)
  ELSE 0

PaylineMatch(count, symbol) == [count |-> count, symbol |-> symbol]

\* the run of the first cell's symbol from the left
_match_payline_run(grid, payline_index) ==
  LET symbols == _get_grid_payline_symbols(grid, payline_index)
      run == Cardinality({n \in 1 .. 5 : \A i \in 1 .. n : symbols[i] = symbols[1]})
  IN  IF _get_payout_multiplier(PaylineMatch(run, symbols[1])) > 0
        THEN PaylineMatch(run, symbols[1])
        ELSE PaylineMatch(0, "_")

_match_payline(grid, payline_index) ==
  LET symbols == _get_grid_payline_symbols(grid, payline_index)
      Count(sym) == Cardinality({i \in 1 .. 5 : symbols[i] = sym})
      count_A == Count("A")
      count_B == Count("B")
      count_C == Count("C")
      count_D == Count("D")
      h0 == [count |-> 0, symbol |-> "_", payout |-> 0]
      Better(h, c, sym) ==
        LET m == _get_payout_multiplier(PaylineMatch(c, sym))
        IN  IF m > h.payout THEN [count |-> c, symbol |-> sym, payout |-> m] ELSE h
      hA == Better(h0, count_A, "A")
      hB == Better(hA, count_B, "B")
      hC == Better(hB, count_C, "C")
      hD == Better(hC, count_D, "D")
  IN  PaylineMatch(hD.count, hD.symbol)

----------------------------------------------------------------------------
(* The store a handler runs on, and the statements that can stop it *)

NoKey == <<>>

\* no grid decoded (yet) by the running call
NoGrid == <<>>

\* no event emitted (yet) by the running call
NoEvent == <<>>

NoBets == [k \in {} |-> 0]

Store ==
  [owner |-> owner, bank_balances |-> bank_balances, bet |-> bet,
   app_balance |-> app_balance, err |-> "", ret |-> 0, key |-> NoKey, itxns |-> <<>>,
   event |-> NoEvent, grid |-> NoGrid]

Running(s) == s.err = ""

\* assert cond, msg
Require(s, cond, msg) == IF Running(s) /\ ~cond THEN [s EXCEPT !.err = msg] ELSE s

\* require_payment(Txn.sender): the payment grouped with the call reaches the
\* application account; its amount is returned to the handler
require_payment(s, payment) ==
  IF Running(s) THEN [s EXCEPT !.app_balance = @ + payment] ELSE s

itxn_Payment_skip(s, receiver, amount) == s

\* itxn.Payment(receiver, amount).submit(): fails when the account cannot pay
itxn_Payment(s, receiver, amount) ==
  IF ~Running(s) THEN s
  ELSE IF s.app_balance < amount THEN [s EXCEPT !.err = "overspend"]
  ELSE [s EXCEPT !.app_balance = @ - amount,
                 !.itxns = Append(@, [receiver |-> receiver, amount |-> amount])]

----------------------------------------------------------------------------
(* Ownable *)

_get_owner(s) == s.owner

_only_owner_anyone(s, sender) == s

_only_owner(s, sender) ==
  Require(s, sender = _get_owner(s), "only the owner can call this function")

_transfer_ownership(s, new_owner) ==
  IF Running(s) THEN [s EXCEPT !.owner = new_owner] ELSE s

_ownable_bootstrap(s) ==
  IF Running(s) THEN [s EXCEPT !.owner = creator_address] ELSE s

----------------------------------------------------------------------------
(* Bank ledger (BankManager) *)

_invalid_balances ==
  [balance_available |-> 0, balance_total |-> 0, balance_locked |-> 0,
   balance_fuse |-> FALSE]

_bank_balances(s) == s.bank_balances

_get_balance_available_total(s) == _bank_balances(s).balance_total

_get_balance_available(s) == _bank_balances(s).balance_available

_get_balance_locked(s) == _bank_balances(s).balance_locked

_get_balance_total(s) == _bank_balances(s).balance_total

_increment_balance_available(s, amount) ==
  IF Running(s) THEN [s EXCEPT !.bank_balances.balance_available = @ + amount] ELSE s

_decrement_balance_available_unchecked(s, amount) ==
  IF Running(s) THEN [s EXCEPT !.bank_balances.balance_available = @ - amount] ELSE s

_decrement_balance_available_keep(s, amount) ==
  Require(s, _get_balance_available(s) >= amount, "balance available is less than amount")

_decrement_balance_available(s, amount) ==
  LET s1 == Require(s, _get_balance_available(s) >= amount,
                   "balance available is less than amount")
  IN  IF Running(s1) THEN [s1 EXCEPT !.bank_balances.balance_available = @ - amount] ELSE s1

_increment_balance_locked_skip(s, amount) == s

_increment_balance_locked(s, amount) ==
  IF Running(s) THEN [s EXCEPT !.bank_balances.balance_locked = @ + amount] ELSE s

_decrement_balance_locked(s, amount) ==
  LET s1 == Require(s, _get_balance_locked(s) >= amount,
                   "balance locked is less than amount")
  IN  IF Running(s1) THEN [s1 EXCEPT !.bank_balances.balance_locked = @ - amount] ELSE s1

_increment_balance_total_skip(s, amount) == s

_increment_balance_total(s, amount) ==
  IF Running(s) THEN [s EXCEPT !.bank_balances.balance_total = @ + amount] ELSE s

_decrement_balance_total(s, amount) ==
  LET s1 == Require(s, _get_balance_total(s) >= amount,
                   "balance total is less than amount")
  IN  IF Running(s1) THEN [s1 EXCEPT !.bank_balances.balance_total = @ - amount] ELSE s1

_initialize_bank_manager_storage(s, sender) ==
  LET s1 == _only_owner(s, sender)
      s2 == Require(s1, ~_bank_balances(s1).balance_fuse,
                   "bank balances must not be initialized")
  IN  IF Running(s2)
        THEN [s2 EXCEPT !.bank_balances = [_invalid_balances EXCEPT !.balance_fuse = TRUE]]
        ELSE s2

_bank_manager_bootstrap(s, sender) == _initialize_bank_manager_storage(s, sender)

owner_deposit(s, sender, amount) ==
  LET s1 == _only_owner(s, sender)
      s2 == _increment_balance_total(s1, amount)
  IN  _increment_balance_available(s2, amount)

_deposit(s, payment) ==
  LET s1 == require_payment(s, payment)
      s2 == Require(s1, payment > 0, "payment must be greater than 0")
      s3 == _increment_balance_total(s2, payment)
  IN  _increment_balance_available(s3, payment)

_withdraw(s, sender, amount) ==
  LET s1 == _only_owner(s, sender)
      s2 == Require(s1, amount > 0, "amount must be greater than 0")
      s3 == Require(s2, amount <= _get_balance_available(s2), "insufficient balance")
      s4 == Require(s3, amount <= _get_balance_total(s3), "insufficient balance")
      s5 == itxn_Payment(s4, sender, amount)
      s6 == _decrement_balance_available(s5, amount)
  IN  _decrement_balance_total(s6, amount)

----------------------------------------------------------------------------
(* SlotMachine: bootstrap and ownership *)

_bootstrap(s, sender) == _ownable_bootstrap(_bank_manager_bootstrap(s, sender))

bootstrap(s, sender, payment) ==
  LET s1 == require_payment(s, payment)
      s2 == Require(s1, payment >= _bootstrap_cost, "insuffienct payment for bootstrap")
  IN  _bootstrap(s2, sender)

transfer_ownership(s, sender, new_owner) ==
  _transfer_ownership(_only_owner(s, sender), new_owner)

----------------------------------------------------------------------------
(* Wager lifecycle: spin (SpinManager) *)

\* address || amount || max_payline_index || index: four fixed-width fields
_get_bet_key(address, amount, max_payline_index, index) ==
  <<address, amount, max_payline_index, index>>

BetKeys ==
  {_get_bet_key(a, b, m, i) : a \in Players, b \in BetAmounts,
                              m \in MaxPaylineIndexes, i \in Indexes}

\* bet_key in self.bet
_bet_exists_never(s, bet_key) == FALSE

_bet_exists(s, bet_key) == bet_key \in DOMAIN s.bet

Bet(who, amount, max_payline_index, index, claim_round) ==
  [who |-> who, amount |-> amount, max_payline_index |-> max_payline_index,
   index |-> index, claim_round |-> claim_round]

\* arc4.emit(BetPlaced(...))
BetPlaced(who, amount, max_payline_index, index, claim_round) ==
  [name |-> "BetPlaced", who |-> who, amount |-> amount,
   max_payline_index |-> max_payline_index, index |-> index, claim_round |-> claim_round]

_lockup_amount(bet_amount) == bet_amount * max_payout_multiplier

_store_bet_skip(s, bet_key, b) == s

\* self.bet[bet_key] = Bet(...)
_store_bet(s, bet_key, b) ==
  IF Running(s)
    THEN [s EXCEPT !.bet = [k \in DOMAIN s.bet \cup {bet_key} |->
                              IF k = bet_key THEN b ELSE s.bet[k]]]
    ELSE s

_spin(s, sender, now, bet_amount, max_payline_index, index, payment) ==
  LET expected_payment_amount == bet_amount * (max_payline_index + 1)
      s1 == Require(s, expected_payment_amount >= _get_min_bet_amount,
                   "bet amount too small")
      s2 == Require(s1, expected_payment_amount <= _get_max_bet_amount,
                   "bet amount too large")
      s3 == require_payment(s2, payment)
      actual_payment_amount == payment
      s4 == Require(s3, actual_payment_amount >= expected_payment_amount,
                   "payment insufficient")
      extra_payment_amount == actual_payment_amount - expected_payment_amount
      min_costs == _spin_cost
      s5 == Require(s4, extra_payment_amount >= min_costs,
                   "extra payment must be greater than box cost")
      s6 == Require(s5, extra_payment_amount <= _get_max_extra_payment,
                   "extra payment must be less than max extra payment")
      s7 == Require(s6, _get_balance_total(s6) >= _get_min_bank_amount,
                   "balance total must be greater than min bank amount")
      s8 == _increment_balance_total(s7, expected_payment_amount)
      s9 == _increment_balance_available(s8, expected_payment_amount)
      lockup_amount == _lockup_amount(bet_amount)
      s10 == _increment_balance_locked(s9, lockup_amount)
      s11 == _decrement_balance_available(s10, lockup_amount)
      confirmed_round == now
      bet_key == _get_bet_key(sender, bet_amount, max_payline_index, index)
      s12 == Require(s11, ~_bet_exists(s11, bet_key), "bet already exists")
      claim_round == confirmed_round + _get_round_future_delta
      s13 == _store_bet(s12, bet_key,
                        Bet(sender, bet_amount, max_payline_index, index, claim_round))
  IN  IF Running(s13)
        THEN [s13 EXCEPT !.key = bet_key,
                         !.event = BetPlaced(sender, bet_amount, max_payline_index, index,
                                             claim_round)]
        ELSE s13

----------------------------------------------------------------------------
(* Wager lifecycle: claim (SlotMachine) *)

\* op.Block.blk_seed(round) stops the program unless the host still serves
\* the block: never for the current round or a later one, always for the
\* MAX_CLAIM_ROUND_DELTA rounds before the current one.  Whether the round
\* MAX_CLAIM_ROUND_DELTA + 1 back is served depends on the validity window
\* of the calling transaction (edge).
blk_seed_available_always(r, now, edge) == TRUE

blk_seed_available(r, now, edge) ==
  IF r < now /\ now <= r + MAX_CLAIM_ROUND_DELTA THEN TRUE
  ELSE IF now = r + MAX_CLAIM_ROUND_DELTA + 1 THEN edge
  ELSE FALSE

\* the seed the host returns; only read when blk_seed_available
_get_block_seed(r) == IF r \in DOMAIN blk_seed THEN blk_seed[r] ELSE 0

\* del self.bet[bet_key]
\* every bet box is deleted
_delete_bet_all(s, bet_key) == [s EXCEPT !.bet = NoBets]

_delete_bet_keep(s, bet_key) == s

_delete_bet(s, bet_key) ==
  IF Running(s) THEN [s EXCEPT !.bet = [k \in DOMAIN s.bet \ {bet_key} |-> s.bet[k]]] ELSE s

\* arc4.emit(BetClaimed(...))
BetClaimed(who, amount, max_payline_index, index, claim_round, payout) ==
  [name |-> "BetClaimed", who |-> who, amount |-> amount,
   max_payline_index |-> max_payline_index, index |-> index, claim_round |-> claim_round,
   payout |-> payout]

\* only the first payline is evaluated
ClaimLines_first(grid, amount, lines) ==
  [ok |-> _get_payline_in_range(0),
   total_payout |-> amount * _get_payout_multiplier(_match_payline(grid, 0))]

\* the loop over line_index in urange(lines): total_payout after each
\* iteration; ok is FALSE when a payline read is out of range
ClaimLines(grid, amount, lines) ==
  LET payout(line_index) ==
        amount * _get_payout_multiplier(_match_payline(grid, line_index))
      total_payout[n \in 0 .. lines] ==
        IF n = 0 THEN 0
        ELSE IF payout(n - 1) > 0 THEN total_payout[n - 1] + payout(n - 1)
        ELSE total_payout[n - 1]
  IN  IF \E line_index \in 0 .. (lines - 1) : ~_get_payline_in_range(line_index)
        THEN [ok |-> FALSE, total_payout |-> 0]
        ELSE [ok |-> TRUE, total_payout |-> total_payout[lines]]

_claim(s, sender, now, bet_key, edge) ==
  LET s1 == Require(s, _bet_exists(s, bet_key), "bet not found")
  IN  IF ~Running(s1) THEN s1
      ELSE
        LET b == s1.bet[bet_key]
            lockup_release == _lockup_amount(b.amount)
            s2 == _decrement_balance_locked(s1, lockup_release)
            s3 == _increment_balance_available(s2, lockup_release)
            lines == b.max_payline_index + 1
            s4 == Require(s3, blk_seed_available(b.claim_round, now, edge),
                         "block not available")
            hashed == sha256_seed_key(_get_block_seed(b.claim_round), bet_key)
            grid == _get_grid(hashed)
            loop == ClaimLines(grid, b.amount, lines)
            s5 == Require(s4, loop.ok, "index out of bounds")
            total_payout == loop.total_payout
            s6 == _delete_bet(s5, bet_key)
            s7 == IF total_payout > 0 THEN itxn_Payment(s6, b.who, total_payout) ELSE s6
            s8 == itxn_Payment(s7, sender, _spin_cost)
        IN  IF Running(s8)
              THEN [s8 EXCEPT !.ret = total_payout, !.key = bet_key, !.grid = grid,
                              !.event = BetClaimed(b.who, b.amount, b.max_payline_index,
                                                   b.index, b.claim_round, total_payout)]
              ELSE s8

\* the grid of another block seed
_get_bet_grid_other(s, now, bet_key, edge) ==
  IF bet_key \in DOMAIN s.bet
    THEN [s EXCEPT !.grid = _get_grid(sha256_seed_key(
                               _get_block_seed(s.bet[bet_key].claim_round) + 1, bet_key))]
    ELSE [s EXCEPT !.err = "bet not found"]

\* get_bet_grid: the grid of a stored wager, returned to the caller
_get_bet_grid(s, now, bet_key, edge) ==
  LET s1 == Require(s, _bet_exists(s, bet_key), "bet not found")
  IN  IF ~Running(s1) THEN s1
      ELSE
        LET b == s1.bet[bet_key]
            s2 == Require(s1, blk_seed_available(b.claim_round, now, edge),
                         "block not available")
            hashed == sha256_seed_key(_get_block_seed(b.claim_round), bet_key)
            grid == _get_grid(hashed)
        IN  IF Running(s2) THEN [s2 EXCEPT !.grid = grid] ELSE s2

\* get_bet_claim_round(bet_key): reading a bet box that does not exist stops
\* the program
get_bet_claim_round(s, bet_key) ==
  LET s1 == Require(s, _bet_exists(s, bet_key), "bet not found")
  IN  IF Running(s1) THEN [s1 EXCEPT !.ret = s1.bet[bet_key].claim_round] ELSE s1

\* the store the next call of a transaction sequence starts on: what the
\* previous call wrote, and a fresh result
NextCall(s) == [s EXCEPT !.ret = 0, !.key = NoKey, !.itxns = <<>>, !.event = NoEvent,
                         !.grid = NoGrid]

----------------------------------------------------------------------------
(* The share token (YieldBearingToken), which owns the slot machine and    *)
(* deposits into its bank.  Shares are counted one by one; amounts, as     *)
(* everywhere, in units of 500 microVOI, so that a first mint issues 500   *)
(* shares for each unit and a later mint amount * totalSupply \div         *)
(* total_assets, the quotient of two amounts being that of their units.    *)

\* Global.current_application_address of the token
token_address == "token"

\* application id of the slot machine
SlotMachineApp == 1

BOX_COST_BALANCE == 28500 \div 500

\* YieldBearingToken.__init__; calls counts the token calls that went through
YieldBearingToken ==
  [owner |-> creator_address, yield_bearing_source |-> 0, yield_fuse_active |-> TRUE,
   totalSupply |-> 0, balances |-> [a \in {} |-> 0], app_balance |-> 0, calls |-> 0]

\* the stores a token handler runs on: its own and, through inner calls,
\* the slot machine's
TokenStore ==
  [token |-> token, sm |-> Store, err |-> "", ret |-> 0, itxns |-> <<>>]

TokenRequire(r, cond, msg) == IF Running(r) /\ ~cond THEN [r EXCEPT !.err = msg] ELSE r

\* arc4.abi_call(OwnableInterface.get_owner, app_id=app)
abi_call_get_owner(r) == _get_owner(r.sm)

\* arc4.abi_call(BankManagerInterface.get_balance_total, app_id=...)
_get_yield_bearing_source_balance(r) == _get_balance_total(r.sm)

set_yield_bearing_source(r, sender, app_id) ==
  LET r1 == TokenRequire(r, sender = r.token.owner, "only the owner can call this function")
      r2 == TokenRequire(r1, r1.token.yield_fuse_active, "yield fuse is not active")
      r3 == TokenRequire(r2, abi_call_get_owner(r2) = token_address,
                         "yield bearing source must be owned by this contract")
  IN  IF Running(r3) THEN [r3 EXCEPT !.token.yield_bearing_source = app_id] ELSE r3

\* self.balances.get(key=who, default=self.totalSupply + 1) != self.totalSupply + 1
_has_balance(r, who) ==
  (IF who \in DOMAIN r.token.balances THEN r.token.balances[who]
   ELSE r.token.totalSupply + 1) # r.token.totalSupply + 1

_deposit_cost(r, sender) == IF ~_has_balance(r, sender) THEN BOX_COST_BALANCE ELSE 0

\* ARC200Token._balanceOf: the balance box, 0 without one
_balanceOf(r, who) ==
  IF who \in DOMAIN r.token.balances THEN r.token.balances[who] ELSE 0

\* require_payment(Txn.sender) in the token
token_require_payment(r, payment) ==
  IF Running(r) THEN [r EXCEPT !.token.app_balance = @ + payment] ELSE r

\* owner_deposit is called and no funds are sent
forward_payment_none(r, amount) == r

\* itxn.Payment(receiver=app.address, amount=deposit_amount).submit()
forward_payment(r, amount) ==
  IF ~Running(r) THEN r
  ELSE IF r.token.app_balance < amount THEN [r EXCEPT !.err = "overspend"]
  ELSE [r EXCEPT !.token.app_balance = @ - amount,
                 !.sm.app_balance = @ + amount,
                 !.itxns = Append(@, [type |-> "pay", receiver |-> SlotMachineApp,
                                      amount |-> amount])]

\* arc4.abi_call(SlotMachine.owner_deposit, deposit_amount, app_id=app): the
\* caller the slot machine sees is the token's address
abi_call_owner_deposit(r, amount) ==
  IF ~Running(r) THEN r
  ELSE LET s == owner_deposit(r.sm, token_address, amount)
       IN  IF Running(s)
             THEN [r EXCEPT !.sm = s,
                            !.itxns = Append(@, [type |-> "appl", receiver |-> SlotMachineApp,
                                                 method |-> "owner_deposit",
                                                 amount |-> amount])]
             ELSE [r EXCEPT !.err = s.err]

_mint(r, sender, amount, total_assets) ==
  IF ~Running(r) THEN r
  ELSE IF r.token.totalSupply # 0 /\ total_assets = 0 THEN [r EXCEPT !.err = "/ 0"]
  ELSE
    LET shares == IF r.token.totalSupply = 0 THEN amount * 500
                  ELSE (amount * r.token.totalSupply) \div total_assets
        r1 == TokenRequire(r, shares > 0, "Deposit amount too small")
    IN  IF Running(r1)
          THEN [r1 EXCEPT !.token.totalSupply = @ + shares,
                          !.token.balances =
                             [a \in DOMAIN @ \cup {sender} |->
                                IF a = sender THEN _balanceOf(r, sender) + shares ELSE @[a]],
                          !.ret = shares]
          ELSE r1

\* BigUInt arithmetic: the quotient q and remainder r of a * b by c, with
\* a * b = q * c + r, computed by doubling a along the bits of b so that no
\* intermediate value passes 2 * c
RECURSIVE MulDivBits(_, _, _)
MulDivBits(a, b, c) ==
  IF b = 0 THEN [q |-> 0, r |-> 0]
  ELSE
    LET h == MulDivBits(a, b \div 2, c)
        carry2 == IF 2 * h.r >= c THEN 1 ELSE 0
        q2 == 2 * h.q + carry2
        r2 == 2 * h.r - carry2 * c
        ra == IF b % 2 = 1 THEN a % c ELSE 0
        qa == IF b % 2 = 1 THEN a \div c ELSE 0
        carry3 == IF r2 + ra >= c THEN 1 ELSE 0
    IN  [q |-> q2 + qa + carry3, r |-> r2 + ra - carry3 * c]

MulDiv(a, b, c) == IF a < b THEN MulDivBits(b, a, c) ELSE MulDivBits(a, b, c)

\* the balance of shares is the limit, whatever is locked in the bank
_get_max_withdrawable_amount_balance(r, who) == _balanceOf(r, who)

\* balance * available * SCALING_FACTOR // (total_balance * SCALING_FACTOR)
_get_max_withdrawable_amount(r, who) ==
  LET balance == _balanceOf(r, who)
      available_balance == _get_balance_available(r.sm)
      locked_balance == _get_balance_locked(r.sm)
      total_balance == available_balance + locked_balance
  IN  IF balance = 0 THEN 0
      ELSE IF total_balance = 0 THEN 0
      ELSE MulDiv(balance, available_balance, total_balance).q

\* (withdraw_amount * total_balance * SCALING_FACTOR // totalSupply)
\* // SCALING_FACTOR, in units of 500 microVOI: q whole units, and part of
\* a further unit unless 500 * r < totalSupply
amount_to_withdraw(r, withdraw_amount) ==
  LET md == MulDiv(withdraw_amount, _get_balance_total(r.sm), r.token.totalSupply)
  IN  [units |-> md.q, whole |-> md.r <= (r.token.totalSupply - 1) \div 500]

\* arc4.abi_call(SlotMachine.withdraw, amount_to_withdraw, app_id=app): the
\* caller the slot machine sees, and pays, is the token
abi_call_withdraw(r, amount) ==
  IF ~Running(r) THEN r
  ELSE LET s == _withdraw(r.sm, token_address, amount)
       IN  IF Running(s)
             THEN [r EXCEPT !.sm = s,
                            !.token.app_balance = @ + amount,
                            !.itxns = Append(@, [type |-> "appl", receiver |-> SlotMachineApp,
                                                 method |-> "withdraw", amount |-> amount])]
             ELSE [r EXCEPT !.err = s.err]

\* itxn.Payment(receiver=Txn.sender, amount=small_amount_to_withdraw).submit()
token_itxn_Payment(r, receiver, amount) ==
  IF ~Running(r) THEN r
  ELSE IF r.token.app_balance < amount THEN [r EXCEPT !.err = "overspend"]
  ELSE [r EXCEPT !.token.app_balance = @ - amount,
                 !.itxns = Append(@, [type |-> "pay", receiver |-> receiver,
                                      amount |-> amount])]

\* the shares burnt are worth a whole number of units for the amounts the
\* token is called with
_burn(r, sender, withdraw_amount) ==
  IF ~Running(r) THEN r
  ELSE IF r.token.totalSupply = 0 THEN [r EXCEPT !.err = "/ 0"]
  ELSE
    LET small_amount_to_withdraw == amount_to_withdraw(r, withdraw_amount).units
        r1 == TokenRequire(r, small_amount_to_withdraw > 0, "amount to withdraw is 0")
        r2 == IF Running(r1)
                THEN [r1 EXCEPT !.token.balances[sender] = @ - withdraw_amount,
                                !.token.totalSupply = @ - withdraw_amount]
                ELSE r1
        r3 == abi_call_withdraw(r2, small_amount_to_withdraw)
        r4 == token_itxn_Payment(r3, sender, small_amount_to_withdraw)
    IN  IF Running(r4) THEN [r4 EXCEPT !.ret = small_amount_to_withdraw] ELSE r4

\* YieldBearingToken.withdraw
token_withdraw(r, sender, amount) ==
  LET r1 == TokenRequire(r, amount > 0, "amount must be greater than 0")
      r2 == TokenRequire(r1, r1.token.yield_bearing_source > 0,
                         "yield bearing source not set")
      max_withdrawable == _get_max_withdrawable_amount(r2, sender)
      r3 == TokenRequire(r2, max_withdrawable >= amount, "insufficient balance")
  IN  _burn(r3, sender, amount)

\* YieldBearingToken.deposit
token_deposit(r, sender, payment) ==
  LET r1 == TokenRequire(r, r.token.yield_bearing_source > 0, "yield bearing source not set")
      r2 == token_require_payment(r1, payment)
      balance_box_cost == _deposit_cost(r2, sender)
      r3 == TokenRequire(r2, payment >= balance_box_cost, "payment insufficient")
      deposit_amount == IF _has_balance(r3, sender) THEN payment
                        ELSE payment - balance_box_cost
      r4 == TokenRequire(r3, deposit_amount > 0, "deposit amount must be greater than 0")
      total_assets == _get_yield_bearing_source_balance(r4)
      r5 == forward_payment(r4, deposit_amount)
      r6 == abi_call_owner_deposit(r5, deposit_amount)
  IN  _mint(r6, sender, deposit_amount, total_assets)

----------------------------------------------------------------------------
(* The state machine *)

Call(op, sender, key, amount) ==
  [op |-> op, sender |-> sender, key |-> key, amount |-> amount]

\* the rounds stored wagers refer to
ReferencedRounds(bets) == {bets[k].claim_round : k \in DOMAIN bets}

\* transcript of a call that ran to its end
Done(s, call) ==
  [op |-> call.op, sender |-> call.sender, key |-> call.key, amount |-> call.amount,
   ret |-> s.ret, itxns |-> s.itxns, before |-> bank_balances]

\* end of a call that ran to its end: the store is committed.  A call whose
\* handler stopped is rejected by the host as a whole and is no step at all:
\* no variable changes and the chain keeps no trace of it
Commit_partial(s, call) ==
  /\ last' = Done(s, call)
  /\ round' = round
  /\ owner' = s.owner
  /\ bank_balances' = s.bank_balances
  /\ bet' = s.bet
  /\ app_balance' = s.app_balance
  /\ blk_seed' = [r \in DOMAIN blk_seed \cap ReferencedRounds(s.bet) |-> blk_seed[r]]
  /\ token' = token

Commit(s, call) ==
  /\ Running(s)
  /\ last' = Done(s, call)
  /\ round' = round
  /\ owner' = s.owner
  /\ bank_balances' = s.bank_balances
  /\ bet' = s.bet
  /\ app_balance' = s.app_balance
  /\ blk_seed' = [r \in DOMAIN blk_seed \cap ReferencedRounds(s.bet) |-> blk_seed[r]]
  /\ token' = token

Init ==
  /\ owner = creator_address
  /\ bank_balances = _invalid_balances
  /\ bet = NoBets
  /\ round = 0
  /\ blk_seed = [r \in {} |-> 0]
  /\ app_balance = 0
  /\ calls = 0
  /\ advances = 0
  /\ last = [op |-> "init", sender |-> NoAccount, key |-> NoKey, amount |-> 0,
             ret |-> 0, itxns |-> <<>>, before |-> _invalid_balances]
  /\ token = YieldBearingToken

\* a bank or ownership call, counted when it goes through
AdminCall(s, call) ==
  /\ calls < MaxCalls
  /\ Commit(s, call)
  /\ calls' = calls + 1
  /\ UNCHANGED advances

Bootstrap(sender, payment) ==
  AdminCall(bootstrap(Store, sender, payment), Call("bootstrap", sender, NoKey, payment))

Deposit(sender, payment) ==
  AdminCall(_deposit(Store, payment), Call("deposit", sender, NoKey, payment))

OwnerDeposit(sender, amount) ==
  AdminCall(owner_deposit(Store, sender, amount),
            Call("owner_deposit", sender, NoKey, amount))

Withdraw(sender, amount) ==
  AdminCall(_withdraw(Store, sender, amount), Call("withdraw", sender, NoKey, amount))

TransferOwnership(sender, new_owner) ==
  AdminCall(transfer_ownership(Store, sender, new_owner),
            Call("transfer_ownership", sender, NoKey, 0))

Spin(sender, bet_amount, max_payline_index, index, payment) ==
  /\ calls < MaxCalls
  /\ advances < MaxAdvances
  /\ LET s == _spin(Store, sender, round, bet_amount, max_payline_index, index, payment)
     IN  /\ Commit(s, Call("spin", sender,
                           _get_bet_key(sender, bet_amount, max_payline_index, index),
                           payment))
         /\ calls' = calls + 1
  /\ UNCHANGED advances

Claim(sender, bet_key, edge) ==
  /\ Commit(_claim(Store, sender, round, bet_key, edge), Call("claim", sender, bet_key, 0))
  /\ UNCHANGED <<calls, advances>>

\* the chain moves on by d rounds; the seed of a round becomes fixed when the
\* round is finalized.  Past the explored steps the chain still moves on, round
\* by round, until the claim round of every stored wager lies behind it.
AdvanceRound(d, seed) ==
  /\ \/ advances < MaxAdvances
     \/ d = 1 /\ \E bet_key \in DOMAIN bet : bet[bet_key].claim_round >= round
  /\ advances' = IF advances < MaxAdvances THEN advances + 1 ELSE advances
  /\ round' = round + d
  /\ LET new == {r \in ReferencedRounds(bet) : r > round /\ r <= round + d}
     IN  blk_seed' = [r \in DOMAIN blk_seed \cup new |->
                        IF r \in DOMAIN blk_seed THEN blk_seed[r] ELSE seed]
  /\ last' = [op |-> "advance", sender |-> NoAccount, key |-> NoKey, amount |-> 0,
              ret |-> 0, itxns |-> <<>>, before |-> bank_balances]
  /\ UNCHANGED <<owner, bank_balances, bet, app_balance, calls, token>>

DepositAmounts == {0, min_bank_amount}

SpinPayments(bet_amount, max_payline_index) ==
  {bet_amount * (max_payline_index + 1), bet_amount * (max_payline_index + 1) + _spin_cost}

\* payments a caller may attach to a spin: around the wager payment, around
\* the wager payment plus the spin cost, around the largest excess
AnySpinPayments(bet_amount, max_payline_index) ==
  LET expected == bet_amount * (max_payline_index + 1)
  IN  {p \in {expected - 1, expected, expected + _spin_cost - 1, expected + _spin_cost,
              expected + max_extra_payment, expected + max_extra_payment + 1} : p >= 0}

\* amounts a caller may ask to withdraw: nothing, and around the available
\* balance and the total balance
AnyWithdrawAmounts ==
  {0, 1, bank_balances.balance_available, bank_balances.balance_available + 1,
   bank_balances.balance_total, bank_balances.balance_total + 1}

\* stakes whose lockup a bank holding min_bank_amount can and cannot cover
LockupBetAmounts == {1 * VOI, 11 * VOI}

WithdrawAmounts == {bank_balances.balance_available, bank_balances.balance_total}

Next ==
  \/ \E sender \in Accounts, payment \in {0, _bootstrap_cost} : Bootstrap(sender, payment)
  \/ \E sender \in {"alice"}, payment \in DepositAmounts : Deposit(sender, payment)
  \/ \E sender \in Accounts, amount \in {min_bank_amount} : OwnerDeposit(sender, amount)
  \/ \E sender \in Accounts, amount \in WithdrawAmounts : Withdraw(sender, amount)
  \/ \E sender \in Accounts : \E new_owner \in Accounts \ {sender} :
          TransferOwnership(sender, new_owner)
  \/ \E sender \in Players, bet_amount \in BetAmounts, m \in MaxPaylineIndexes,
        index \in Indexes :
          \E payment \in SpinPayments(bet_amount, m) :
            Spin(sender, bet_amount, m, index, payment)
  \/ \E sender \in {"alice"}, bet_key \in BetKeys, edge \in BOOLEAN :
          Claim(sender, bet_key, edge)
  \/ \E d \in {1, MAX_CLAIM_ROUND_DELTA}, seed \in Seeds : AdvanceRound(d, seed)

Spec == Init /\ [][Next]_vars

\* a claim on bet_key submitted now would go through
ClaimEnabled(bet_key) ==
  \E sender \in {"alice"}, edge \in BOOLEAN :
    Running(_claim(Store, sender, round, bet_key, edge))

\* a claim on bet_key has just gone through
ClaimTaken(bet_key) == last.op = "claim" /\ last.key = bet_key

\* the calls of a bank that is funded by deposits and plays: no bootstrap,
\* owner_deposit, withdraw or transfer_ownership
NextPlay ==
  \/ \E sender \in {"alice"}, payment \in DepositAmounts : Deposit(sender, payment)
  \/ \E sender \in Players, bet_amount \in BetAmounts, m \in MaxPaylineIndexes,
        index \in Indexes :
          \E payment \in SpinPayments(bet_amount, m) :
            Spin(sender, bet_amount, m, index, payment)
  \/ \E sender \in {"alice"}, bet_key \in BetKeys, edge \in BOOLEAN :
          Claim(sender, bet_key, edge)
  \/ \E d \in {1, MAX_CLAIM_ROUND_DELTA}, seed \in Seeds : AdvanceRound(d, seed)

\* the chain keeps producing rounds (weak fairness of AdvanceRound), and a
\* claim that stays possible is eventually submitted (weak fairness of the
\* claim on each key, written out: for ever possible implies taken again
\* and again)
FairSpec ==
  /\ Init
  /\ [][NextPlay]_vars
  /\ WF_vars(\E d \in {1, MAX_CLAIM_ROUND_DELTA}, seed \in Seeds : AdvanceRound(d, seed))
  /\ \A bet_key \in BetKeys :
       ([]<>(~ClaimEnabled(bet_key))) \/ ([]<>ClaimTaken(bet_key))

----------------------------------------------------------------------------
(* The share token and the bank it deposits into *)

\* transcript of a token call that ran to its end
TokenDone(r, op, sender, amount) ==
  [op |-> op, sender |-> sender, key |-> NoKey, amount |-> amount, ret |-> r.ret,
   itxns |-> r.itxns, before |-> bank_balances, app_before |-> app_balance,
   supply |-> token.totalSupply, had_balance |-> _has_balance(TokenStore, sender)]

\* end of a token call that ran to its end: both stores are committed
TokenCommit(r, op, sender, amount) ==
  /\ token.calls < MaxTokenCalls
  /\ Running(r)
  /\ token' = [r.token EXCEPT !.calls = @ + 1]
  /\ owner' = r.sm.owner
  /\ bank_balances' = r.sm.bank_balances
  /\ bet' = r.sm.bet
  /\ app_balance' = r.sm.app_balance
  /\ last' = TokenDone(r, op, sender, amount)
  /\ UNCHANGED <<round, blk_seed, calls, advances>>

SetYieldBearingSource(sender, app_id) ==
  TokenCommit(set_yield_bearing_source(TokenStore, sender, app_id),
              "set_yield_bearing_source", sender, 0)

TokenDeposit(sender, payment) ==
  TokenCommit(token_deposit(TokenStore, sender, payment), "token_deposit", sender, payment)

\* payments to the token: the box cost alone, half a VOI on top of it, half
\* a VOI, nothing
TokenPayments == {0, BOX_COST_BALANCE, VOI \div 2, BOX_COST_BALANCE + VOI \div 2}

\* shares a holder may ask to withdraw: all of them, half of them, the
\* most the bank's locked balance lets out, and that rounded down to
\* hundreds and thousands of shares
TokenWithdrawAmounts(sender) ==
  LET balance == _balanceOf(TokenStore, sender)
      max_withdrawable == _get_max_withdrawable_amount(TokenStore, sender)
  IN  {balance, balance \div 2, max_withdrawable, (max_withdrawable \div 100) * 100,
       (max_withdrawable \div 1000) * 1000}

\* the token is called with amounts of shares worth a whole number of units
TokenWithdraw(sender, amount) ==
  /\ token.totalSupply > 0
  /\ amount_to_withdraw(TokenStore, amount).whole
  /\ TokenCommit(token_withdraw(TokenStore, sender, amount), "token_withdraw", sender,
                 amount)

\* the slot machine is handed to the token, which is pointed at it; players
\* deposit into the token and into the bank itself, spin, and withdraw from
\* the token
NextToken ==
  \/ \E sender \in Accounts : TransferOwnership(sender, token_address)
  \/ \E sender \in {"alice"}, payment \in {VOI \div 2, min_bank_amount} :
          Deposit(sender, payment)
  \/ \E sender \in {"alice"}, payment \in SpinPayments(min_bet_amount, 1) :
          Spin(sender, min_bet_amount, 1, 0, payment)
  \/ \E sender \in Accounts : \E amount \in TokenWithdrawAmounts(sender) :
          TokenWithdraw(sender, amount)
  \/ \E sender \in Accounts : SetYieldBearingSource(sender, SlotMachineApp)
  \/ \E sender \in Accounts, payment \in TokenPayments : TokenDeposit(sender, payment)

TokenSpec == Init /\ [][NextToken]_vars

\* _match_payline with its four comparisons made in the given order of the
\* symbols A, B, C, D
_match_payline_order(grid, payline_index, order) ==
  LET symbols == _get_grid_payline_symbols(grid, payline_index)
      Count(sym) == Cardinality({i \in 1 .. 5 : symbols[i] = sym})
      Better(h, sym) ==
        LET m == _get_payout_multiplier(PaylineMatch(Count(sym), sym))
        IN  IF m > h.payout THEN [count |-> Count(sym), symbol |-> sym, payout |-> m]
            ELSE h
      h4 == Better(Better(Better(Better([count |-> 0, symbol |-> "_", payout |-> 0],
                                        order[1]), order[2]), order[3]), order[4])
  IN  PaylineMatch(h4.count, h4.symbol)

----------------------------------------------------------------------------
(* Read-only methods, called on the application as constructed *)

\* transcript of a read-only call
Read(op, args, ret) ==
  [op |-> op, sender |-> NoAccount, key |-> NoKey, amount |-> 0, ret |-> ret,
   itxns |-> <<>>, before |-> bank_balances, args |-> args]

\* offsets below, at and above the reel length, and the four largest uint64
ReelOffsets ==
  {UInt64(n) : n \in 0 .. (2 * _get_reel_length + 1)} \cup {UInt64Top(n) : n \in 0 .. 3}

GetReelWindow(reel, index) ==
  /\ last.op = "init"
  /\ last' = Read("get_reel_window", <<reel, index>>, get_reel_window(reel, index))
  /\ UNCHANGED <<owner, bank_balances, bet, round, blk_seed, app_balance, calls, advances,
                 token>>

\* the symbols of the reels, and bytes that are none of them
AnySymbols == {"A", "B", "C", "D", "_", "E", "a"}

\* counts below, within and above the runs that pay
AnyCounts == 0 .. 7

\* get_payout_multiplier(symbol, count)
get_payout_multiplier(symbol, count) ==
  Returned(_get_payout_multiplier(PaylineMatch(count, symbol)))

GetPayoutMultiplier(symbol, count) ==
  /\ last.op = "init"
  /\ last' = Read("get_payout_multiplier", <<symbol, count>>,
                  get_payout_multiplier(symbol, count))
  /\ UNCHANGED <<owner, bank_balances, bet, round, blk_seed, app_balance, calls, advances,
                 token>>

\* grids a caller may pass: column c holds, from the top, the symbols
\* number p[c], p[c] + 1 and p[c] + 2 of A B C D _ taken round, that is
\* A B C, D _ A or _ A B
ReelSymbols == <<"A", "B", "C", "D", "_">>

AnyGrids ==
  {[n \in 1 .. 15 |-> ReelSymbols[((p[((n - 1) \div 3) + 1] + ((n - 1) % 3)) % 5) + 1]] :
     p \in [1 .. 5 -> {0, 3, 4}]}

\* match_payline(grid, payline_index): reading the payline array past its
\* end stops the program
match_payline(grid, payline_index) ==
  IF _get_payline_in_range(payline_index)
    THEN Returned(_match_payline(grid, payline_index))
    ELSE Failed("index out of bounds")

MatchPayline(grid, payline_index) ==
  /\ last.op = "init"
  /\ last' = Read("match_payline", <<grid, payline_index>>,
                  match_payline(grid, payline_index))
  /\ UNCHANGED <<owner, bank_balances, bet, round, blk_seed, app_balance, calls, advances,
                 token>>

\* seeds a caller may pass to get_grid, each standing for its five hash
\* tails (modulo 288, as the sampled digests): tails that leave the stop at
\* 0, at the two largest stops, and tails past the number of stops
AnyTails == {0, 94, 95, 96, 287}

AnySeeds == [1 .. 5 -> AnyTails]

\* get_grid(seed)
get_grid(seed) == Returned(_get_grid(seed))

GetGrid(seed) ==
  /\ last.op = "init"
  /\ last' = Read("get_grid", seed, get_grid(seed))
  /\ UNCHANGED <<owner, bank_balances, bet, round, blk_seed, app_balance, calls, advances,
                 token>>

\* grids whose middle row, payline 0, is any five symbols of the reels, the
\* other two rows being blank
LineGrids ==
  {[n \in 1 .. 15 |-> IF n % 3 = 2 THEN line[((n - 1) \div 3) + 1] ELSE "_"] :
     line \in [1 .. 5 -> {"A", "B", "C", "D", "_"}]}

NextRead ==
  \/ \E grid \in LineGrids : MatchPayline(grid, 0)
  \/ \E seed \in AnySeeds : GetGrid(seed)
  \/ \E grid \in AnyGrids, payline_index \in 0 .. _get_payline_count :
          MatchPayline(grid, payline_index)
  \/ \E symbol \in AnySymbols, count \in AnyCounts : GetPayoutMultiplier(symbol, count)
  \/ \E reel \in 0 .. _get_reel_count, index \in ReelOffsets : GetReelWindow(reel, index)

ReadSpec == Init /\ [][NextRead]_vars

----------------------------------------------------------------------------
(* Properties *)

\* C1: in every reachable state, whatever calls went through or were
\* rolled back, balance_available + balance_locked = balance_total.
C1_LedgerInvariant ==
  bank_balances.balance_available + bank_balances.balance_locked
    = bank_balances.balance_total

\* a claim went through while another wager keeps funds locked
C1_Witness ==
  /\ last.op = "claim"
  /\ bank_balances.balance_locked > 0
  /\ bank_balances.balance_available > 0

\* C2: a claim that goes through deletes the wager record, and a claim on a
\* key without a record stops with 'bet not found', pays nothing and changes
\* nothing; so at most one claim per key goes through between two spins of it.
C2_ClaimOnce ==
  /\ last.op = "claim" => last.key \notin DOMAIN bet
  /\ \A sender \in Accounts, bet_key \in BetKeys \ DOMAIN bet, edge \in BOOLEAN :
       LET s == _claim(Store, sender, round, bet_key, edge)
       IN  /\ s.err = "bet not found"
           /\ s.itxns = <<>>
           /\ s.bank_balances = bank_balances
           /\ s.bet = bet
           /\ s.app_balance = app_balance

\* a wager was just settled and a second claim on its key is turned down
C2_Witness ==
  /\ last.op = "claim"
  /\ last.key \notin DOMAIN bet
  /\ _claim(Store, last.sender, round, last.key, TRUE).err = "bet not found"

\* C3: the total payout a claim transfers to the bettor never exceeds the
\* lockup spin reserved for the wager.
C3_PayoutWithinLockup ==
  last.op = "claim" => last.ret <= _lockup_amount(last.key[2])

\* C4: a claim with payout p and released lock r lowers balance_locked by r,
\* raises balance_available by r - p and lowers balance_total by p.
C4_ClaimLedger ==
  last.op = "claim" =>
    LET r == _lockup_amount(last.key[2])
        p == last.ret
    IN  /\ bank_balances.balance_locked = last.before.balance_locked - r
        /\ bank_balances.balance_available = last.before.balance_available + r - p
        /\ bank_balances.balance_total = last.before.balance_total - p

\* C5: after a spin(stake, m, selector) that went through, balance_locked
\* is larger than before by exactly stake * (m + 1) * max_payout_multiplier.
C5_SpinLock ==
  last.op = "spin" =>
    bank_balances.balance_locked
      = last.before.balance_locked
          + last.key[2] * (last.key[3] + 1) * max_payout_multiplier

\* C6, as stated: after a spin that went through, balance_available is
\* smaller than before by exactly the amount by which balance_locked grew.
C6_SpinAvailable_Stated ==
  last.op = "spin" =>
    last.before.balance_available - bank_balances.balance_available
      = bank_balances.balance_locked - last.before.balance_locked

\* C6, amended: after a spin that went through, balance_available is smaller
\* than before by the amount by which balance_locked grew less the wager
\* payment stake * (m + 1) the same call credited to it.
C6_SpinAvailable ==
  last.op = "spin" =>
    last.before.balance_available - bank_balances.balance_available
      = (bank_balances.balance_locked - last.before.balance_locked)
          - last.key[2] * (last.key[3] + 1)

\* a spin went through and locked funds
C6_Witness ==
  /\ last.op = "spin"
  /\ bank_balances.balance_locked > last.before.balance_locked
  /\ bank_balances.balance_available < last.before.balance_available

\* C7: a claim on a pending wager called while round > claim_round +
\* MAX_CLAIM_ROUND_DELTA goes through on the expiry path: the lock moves
\* back to available, the record is removed, the bettor is paid nothing,
\* the caller gets the base fee back and the call returns 0.
C7_ExpiryPath ==
  \A sender \in Accounts, bet_key \in DOMAIN bet, edge \in BOOLEAN :
    round > bet[bet_key].claim_round + MAX_CLAIM_ROUND_DELTA =>
      LET s == _claim(Store, sender, round, bet_key, edge)
          r == _lockup_amount(bet[bet_key].amount)
      IN  /\ Running(s)
          /\ s.ret = 0
          /\ bet_key \notin DOMAIN s.bet
          /\ s.itxns = << [receiver |-> sender, amount |-> _spin_cost] >>
          /\ s.bank_balances.balance_locked = bank_balances.balance_locked - r
          /\ s.bank_balances.balance_available = bank_balances.balance_available + r

\* C8: no wager stays pending for ever: as rounds advance and claims are
\* submitted, a claim on the key of a pending wager eventually goes through.
C8_NoStuckWager ==
  \A bet_key \in BetKeys :
    (bet_key \in DOMAIN bet) ~> (last.op = "claim" /\ last.key = bet_key)

\* C9: a claim never goes through while the current round is earlier than
\* the wager's claim_round.
C9_NoEarlyClaim ==
  \A sender \in Accounts, bet_key \in DOMAIN bet, edge \in BOOLEAN :
    round < bet[bet_key].claim_round =>
      ~Running(_claim(Store, sender, round, bet_key, edge))

\* a wager whose claim round lies ahead is claimed by its bettor, and the
\* call stops at the seed
C9_Witness ==
  \E bet_key \in DOMAIN bet :
    /\ round < bet[bet_key].claim_round
    /\ _claim(Store, bet[bet_key].who, round, bet_key, TRUE).err = "block not available"

\* C10: the wager a spin persists has claim_round = round of the spin +
\* round_future_delta, with round_future_delta >= 1: strictly later than the
\* round the wager was placed in.
C10_ClaimRound ==
  last.op = "spin" =>
    /\ last.key \in DOMAIN bet
    /\ bet[last.key].claim_round = round + round_future_delta
    /\ round_future_delta >= 1
    /\ bet[last.key].claim_round > round

\* a wager was just placed in a round after the first
C10_Witness ==
  /\ last.op = "spin"
  /\ round > 0
  /\ bet[last.key].claim_round = round + 1

\* C11, as stated: a spin on the key of a pending wager, otherwise well
\* formed, stops with 'bet already exists'.
C11_DuplicateSpin_Stated ==
  \A sender \in Players, bet_amount \in BetAmounts, m \in MaxPaylineIndexes,
     index \in Indexes :
    _get_bet_key(sender, bet_amount, m, index) \in DOMAIN bet =>
      _spin(Store, sender, round, bet_amount, m, index,
            bet_amount * (m + 1) + _spin_cost).err = "bet already exists"

\* C11, amended: a spin on the key of a pending wager never goes through; it
\* stops with 'bet already exists' exactly when the checks spin makes before
\* the key lookup pass (payment, bank minimum, available covers the lockup),
\* and with the message of the first of those checks otherwise.
C11_DuplicateSpin ==
  \A sender \in Players, bet_amount \in BetAmounts, m \in MaxPaylineIndexes,
     index \in Indexes :
    \A payment \in SpinPayments(bet_amount, m) :
      _get_bet_key(sender, bet_amount, m, index) \in DOMAIN bet =>
        LET s == _spin(Store, sender, round, bet_amount, m, index, payment)
            expected == bet_amount * (m + 1)
        IN  /\ ~Running(s)
            /\ s.err = "bet already exists" <=>
                 /\ payment - expected >= _spin_cost
                 /\ bank_balances.balance_total >= min_bank_amount
                 /\ bank_balances.balance_available + expected
                      >= bet_amount * max_payout_multiplier

\* a wager is pending, a second spin on its key is turned down as a
\* duplicate, and a spin on another key would go through
C11_Witness ==
  \E sender \in Players, bet_amount \in BetAmounts, m \in MaxPaylineIndexes,
     index \in Indexes :
    /\ _get_bet_key(sender, bet_amount, m, index) \in DOMAIN bet
    /\ _spin(Store, sender, round, bet_amount, m, index,
             bet_amount * (m + 1) + _spin_cost).err = "bet already exists"
    /\ \E other \in Players \ {sender} :
         Running(_spin(Store, other, round, bet_amount, m, index,
                       bet_amount * (m + 1) + _spin_cost))

C13_BetSize ==
  /\ last.op = "spin" =>
       /\ min_bet_amount <= last.key[2] * (last.key[3] + 1)
       /\ last.key[2] * (last.key[3] + 1) <= max_bet_amount
  /\ \A sender \in Players, bet_amount \in AnyBetAmounts, m \in MaxPaylineIndexes,
        index \in Indexes :
       LET expected == bet_amount * (m + 1)
           s == _spin(Store, sender, round, bet_amount, m, index, expected + _spin_cost)
       IN  /\ expected < min_bet_amount => s.err = "bet amount too small"
           /\ expected > max_bet_amount => s.err = "bet amount too large"
           /\ Running(s) => min_bet_amount <= expected /\ expected <= max_bet_amount

\* in a funded bank a spin of exactly the minimum bet would go through while
\* a smaller and a larger one are turned down
C13_Witness ==
  \E sender \in Players, index \in Indexes :
    /\ Running(_spin(Store, sender, round, VOI \div 2, 1, index, 1 * VOI + _spin_cost))
    /\ _spin(Store, sender, round, 0, 1, index, _spin_cost).err = "bet amount too small"
    /\ _spin(Store, sender, round, 2000 * VOI, 1, index,
             4000 * VOI + _spin_cost).err = "bet amount too large"

\* C14: spin goes through only if the payment is at least stake * (m + 1)
\* and the excess lies between the spin cost and max_extra_payment; the
\* smallest excess admitted covers the fee a claim refunds to its caller.
C14_SpinPayment ==
  /\ \A sender \in Players, bet_amount \in BetAmounts, m \in MaxPaylineIndexes,
        index \in Indexes :
       \A payment \in AnySpinPayments(bet_amount, m) :
         LET expected == bet_amount * (m + 1)
             s == _spin(Store, sender, round, bet_amount, m, index, payment)
         IN  /\ payment < expected => s.err = "payment insufficient"
             /\ Running(s) =>
                  /\ payment >= expected
                  /\ payment - expected >= _spin_cost
                  /\ payment - expected <= max_extra_payment
  /\ last.op = "spin" =>
       /\ last.amount - last.key[2] * (last.key[3] + 1) >= _spin_cost
       /\ last.amount - last.key[2] * (last.key[3] + 1) <= max_extra_payment
  /\ last.op = "claim" =>
       /\ last.itxns[Len(last.itxns)].receiver = last.sender
       /\ last.itxns[Len(last.itxns)].amount <= _spin_cost
       /\ \A i \in 1 .. (Len(last.itxns) - 1) : last.itxns[i].amount = last.ret

\* in a funded bank the payments just inside the two ends of the excess go
\* through and the ones just outside are turned down
C14_Witness ==
  \E sender \in Players, index \in Indexes :
    /\ Running(_spin(Store, sender, round, 1 * VOI, 1, index, 2 * VOI + _spin_cost))
    /\ Running(_spin(Store, sender, round, 1 * VOI, 1, index,
                     2 * VOI + max_extra_payment))
    /\ ~Running(_spin(Store, sender, round, 1 * VOI, 1, index, 2 * VOI + _spin_cost - 1))
    /\ ~Running(_spin(Store, sender, round, 1 * VOI, 1, index,
                      2 * VOI + max_extra_payment + 1))
    /\ ~Running(_spin(Store, sender, round, 1 * VOI, 1, index, 2 * VOI - 1))

\* C15: while balance_total is below min_bank_amount every spin is turned
\* down (an otherwise acceptable one on the bank check itself) and a spin
\* that went through found balance_total at min_bank_amount or above; only a
\* deposit or an owner deposit takes balance_total from below
\* min_bank_amount to it, so a wager is only ever placed after the ledger
\* received min_bank_amount of deposits.
C15_BankMinimum ==
  /\ [](/\ \A sender \in Players, bet_amount \in BetAmounts, m \in MaxPaylineIndexes,
              index \in Indexes :
             \A payment \in AnySpinPayments(bet_amount, m) :
               LET expected == bet_amount * (m + 1)
                   s == _spin(Store, sender, round, bet_amount, m, index, payment)
               IN  bank_balances.balance_total < min_bank_amount =>
                     /\ ~Running(s)
                     /\ (/\ payment - expected >= _spin_cost
                         /\ payment - expected <= max_extra_payment)
                        => s.err = "balance total must be greater than min bank amount"
        /\ last.op = "spin" => last.before.balance_total >= min_bank_amount)
  /\ [][ (/\ bank_balances.balance_total < min_bank_amount
          /\ bank_balances'.balance_total >= min_bank_amount)
         => /\ last'.op \in {"deposit", "owner_deposit"}
            /\ bank_balances.balance_total + last'.amount >= min_bank_amount
            /\ bet' = bet ]_vars

\* a wager is pending, the owner has drawn the bank below the minimum, and
\* a spin with an acceptable stake and payment is turned down on the bank
\* check
C15_Witness ==
  /\ bet # NoBets
  /\ bank_balances.balance_total < min_bank_amount
  /\ \E sender \in Players, index \in Indexes :
       /\ _get_bet_key(sender, 1 * VOI, 1, index) \notin DOMAIN bet
       /\ _spin(Store, sender, round, 1 * VOI, 1, index, 2 * VOI + _spin_cost).err
            = "balance total must be greater than min bank amount"

\* C16: a spin whose lockup exceeds balance_available plus its own wager
\* payment is turned down (in a bank at its minimum, on the decrement of
\* balance_available); a decrement by more than the balance stops instead of
\* going below zero; and in every reachable state no balance is negative and
\* balance_locked <= balance_total.
C16_NotOverCommitted ==
  /\ \A sender \in Players, bet_amount \in LockupBetAmounts, m \in MaxPaylineIndexes,
        index \in Indexes :
       LET expected == bet_amount * (m + 1)
           s == _spin(Store, sender, round, bet_amount, m, index, expected + _spin_cost)
       IN  /\ _lockup_amount(bet_amount) > bank_balances.balance_available + expected =>
                /\ ~Running(s)
                /\ bank_balances.balance_total >= min_bank_amount
                     => s.err = "balance available is less than amount"
           /\ Running(s) =>
                /\ s.bank_balances.balance_locked
                     = bank_balances.balance_locked + _lockup_amount(bet_amount)
                /\ s.bank_balances.balance_available >= 0
  /\ \A amount \in {bank_balances.balance_available, bank_balances.balance_available + 1} :
       LET s == _decrement_balance_available(Store, amount)
       IN  /\ Running(s) <=> amount <= bank_balances.balance_available
           /\ Running(s) => s.bank_balances.balance_available = 0
           /\ ~Running(s) => s.err = "balance available is less than amount"
  /\ \A amount \in {bank_balances.balance_locked, bank_balances.balance_locked + 1} :
       LET s == _decrement_balance_locked(Store, amount)
       IN  /\ Running(s) <=> amount <= bank_balances.balance_locked
           /\ Running(s) => s.bank_balances.balance_locked = 0
           /\ ~Running(s) => s.err = "balance locked is less than amount"
  /\ \A amount \in {bank_balances.balance_total, bank_balances.balance_total + 1} :
       LET s == _decrement_balance_total(Store, amount)
       IN  /\ Running(s) <=> amount <= bank_balances.balance_total
           /\ Running(s) => s.bank_balances.balance_total = 0
           /\ ~Running(s) => s.err = "balance total is less than amount"
  /\ bank_balances.balance_available >= 0
  /\ bank_balances.balance_locked >= 0
  /\ bank_balances.balance_total >= 0
  /\ bank_balances.balance_locked <= bank_balances.balance_total

\* funds are locked for a pending wager, the bank is above its minimum, and
\* a spin whose lockup the bank cannot cover stops on the decrement
C16_Witness ==
  /\ bet # NoBets
  /\ bank_balances.balance_locked > 0
  /\ bank_balances.balance_total >= min_bank_amount
  /\ \E sender \in Players, index \in Indexes :
       /\ _lockup_amount(11 * VOI) > bank_balances.balance_available + 11 * VOI * 2
       /\ _spin(Store, sender, round, 11 * VOI, 1, index, 11 * VOI * 2 + _spin_cost).err
            = "balance available is less than amount"

\* C17: a withdrawal goes through only for the owner, with an amount above
\* zero and within both balance_available and balance_total; it then pays
\* the amount to the caller in one payment, takes exactly the amount off
\* balance_available and balance_total, and leaves balance_locked and the
\* wager records as they were.
C17_Withdraw ==
  /\ \A sender \in Accounts, amount \in AnyWithdrawAmounts :
       LET s == _withdraw(Store, sender, amount)
       IN  /\ Running(s) =>
                /\ sender = owner
                /\ amount > 0
                /\ amount <= bank_balances.balance_available
                /\ amount <= bank_balances.balance_total
                /\ s.itxns = <<[receiver |-> sender, amount |-> amount]>>
                /\ s.app_balance = app_balance - amount
                /\ s.bank_balances.balance_available
                     = bank_balances.balance_available - amount
                /\ s.bank_balances.balance_total = bank_balances.balance_total - amount
                /\ s.bank_balances.balance_locked = bank_balances.balance_locked
                /\ s.bet = bet
                /\ s.owner = owner
           /\ sender # owner => s.err = "only the owner can call this function"
           /\ (sender = owner /\ amount = 0) => s.err = "amount must be greater than 0"
           /\ (sender = owner /\ amount > bank_balances.balance_available)
                => s.err = "insufficient balance"
  /\ last.op = "withdraw" =>
       /\ last.amount > 0
       /\ last.itxns = <<[receiver |-> last.sender, amount |-> last.amount]>>
       /\ bank_balances.balance_available = last.before.balance_available - last.amount
       /\ bank_balances.balance_total = last.before.balance_total - last.amount
       /\ bank_balances.balance_locked = last.before.balance_locked

\* the owner has withdrawn all that was available while a wager is pending:
\* the locked funds stay in the ledger and a further withdrawal is refused
C17_Witness ==
  /\ last.op = "withdraw"
  /\ bet # NoBets
  /\ bank_balances.balance_locked > 0
  /\ bank_balances.balance_available = 0
  /\ _withdraw(Store, owner, bank_balances.balance_total).err = "insufficient balance"

\* C18: an owner deposit goes through only for the owner and a deposit only
\* with a payment above zero; either then adds exactly the amount to
\* balance_total and to balance_available and leaves balance_locked, the
\* wager records and the owner as they were.
C18_Deposits ==
  /\ \A sender \in Accounts, amount \in DepositAmounts \cup {1} :
       LET o == owner_deposit(Store, sender, amount)
           d == _deposit(Store, amount)
       IN  /\ Running(o) <=> sender = owner
           /\ sender # owner => o.err = "only the owner can call this function"
           /\ Running(d) <=> amount > 0
           /\ amount = 0 => d.err = "payment must be greater than 0"
           /\ Running(d) => d.app_balance = app_balance + amount
           /\ Running(o) => o.app_balance = app_balance
           /\ \A s \in {o, d} :
                Running(s) =>
                  /\ s.bank_balances.balance_total = bank_balances.balance_total + amount
                  /\ s.bank_balances.balance_available
                       = bank_balances.balance_available + amount
                  /\ s.bank_balances.balance_locked = bank_balances.balance_locked
                  /\ s.bank_balances.balance_fuse = bank_balances.balance_fuse
                  /\ s.bet = bet
                  /\ s.owner = owner
                  /\ s.itxns = <<>>
  /\ last.op \in {"deposit", "owner_deposit"} =>
       /\ bank_balances.balance_total = last.before.balance_total + last.amount
       /\ bank_balances.balance_available = last.before.balance_available + last.amount
       /\ bank_balances.balance_locked = last.before.balance_locked
  /\ last.op = "deposit" => last.amount > 0
  /\ last.op = "owner_deposit" => last.sender = owner

\* the owner has credited the bank while a wager is pending; a deposit with
\* a payment would go through and one without would not
C18_Witness ==
  /\ last.op = "owner_deposit"
  /\ last.amount > 0
  /\ bet # NoBets
  /\ bank_balances.balance_locked > 0
  /\ Running(_deposit(Store, min_bank_amount))
  /\ _deposit(Store, 0).err = "payment must be greater than 0"
  /\ \E sender \in Accounts : ~Running(owner_deposit(Store, sender, min_bank_amount))

\* C19 as stated: after a transfer of ownership that went through, the
\* previous owner fails the owner gate and the new owner passes it.
C19_OwnerGate_Stated ==
  \A sender \in Accounts, new_owner \in Accounts :
    LET s == transfer_ownership(Store, sender, new_owner)
    IN  Running(s) =>
          /\ Running(_only_owner(s, new_owner))
          /\ ~Running(_only_owner(s, owner))

\* C19: in every state exactly one address passes the owner gate; withdraw,
\* owner_deposit, the bank bootstrap, bootstrap and transfer_ownership stop
\* on the gate for every other caller; a transfer of ownership that went
\* through leaves the new owner as the one address that passes, so the
\* previous owner fails the gate unless the ownership was transferred to
\* the previous owner itself.
C19_OwnerGate ==
  /\ Cardinality({a \in Accounts \cup {NoAccount} : Running(_only_owner(Store, a))}) = 1
  /\ Running(_only_owner(Store, owner))
  /\ \A sender \in Accounts \cup {NoAccount} :
       sender # owner =>
         /\ \A amount \in AnyWithdrawAmounts :
              _withdraw(Store, sender, amount).err = "only the owner can call this function"
         /\ \A amount \in DepositAmounts :
              owner_deposit(Store, sender, amount).err
                = "only the owner can call this function"
         /\ _bank_manager_bootstrap(Store, sender).err
              = "only the owner can call this function"
         /\ bootstrap(Store, sender, _bootstrap_cost).err
              = "only the owner can call this function"
         /\ \A new_owner \in Accounts :
              transfer_ownership(Store, sender, new_owner).err
                = "only the owner can call this function"
  /\ \A sender \in Accounts, new_owner \in Accounts :
       LET s == transfer_ownership(Store, sender, new_owner)
       IN  Running(s) =>
             /\ sender = owner
             /\ s.owner = new_owner
             /\ \A a \in Accounts \cup {NoAccount} :
                  Running(_only_owner(s, a)) <=> a = new_owner
             /\ new_owner # owner => ~Running(_only_owner(s, owner))
             /\ s.bank_balances = bank_balances
             /\ s.bet = bet
  /\ last.op = "transfer_ownership" =>
       /\ last.before = bank_balances
       /\ owner # last.sender => ~Running(_only_owner(Store, last.sender))

\* the ownership went from the creator to another account: the creator's
\* withdrawal now stops on the gate and the new owner's gate check passes
C19_Witness ==
  /\ last.op = "transfer_ownership"
  /\ last.sender = creator_address
  /\ owner # creator_address
  /\ Running(_only_owner(Store, owner))
  /\ _withdraw(Store, creator_address, 1).err = "only the owner can call this function"
  /\ Running(transfer_ownership(Store, owner, creator_address))

\* C20: the bank balances record is created exactly once: a bootstrap that
\* goes through finds no record (the balances read as their default, all
\* zero with the fuse unset) and leaves the fuse set; once the fuse is set
\* every bootstrap is turned down, the owner's sufficiently paid one on the
\* fuse check.
C20_BootstrapOnce ==
  /\ last.op = "bootstrap" =>
       /\ last.before = _invalid_balances
       /\ bank_balances = [_invalid_balances EXCEPT !.balance_fuse = TRUE]
  /\ bank_balances.balance_fuse =>
       \A sender \in Accounts, payment \in {0, _bootstrap_cost} :
         LET s == bootstrap(Store, sender, payment)
         IN  /\ ~Running(s)
             /\ (sender = owner /\ payment >= _bootstrap_cost)
                  => s.err = "bank balances must not be initialized"

\* C21: a spin whose max_payline_index is not the index of a payline is
\* turned down, so every wager on record has max_payline_index below the
\* payline count and a claim reads no payline outside the table.
C21_PaylineIndexChecked ==
  /\ \A sender \in Players, bet_amount \in BetAmounts, m \in MaxPaylineIndexes,
        index \in Indexes :
       \A payment \in SpinPayments(bet_amount, m) :
         m >= _get_payline_count =>
           ~Running(_spin(Store, sender, round, bet_amount, m, index, payment))
  /\ \A k \in DOMAIN bet :
       /\ bet[k].max_payline_index < _get_payline_count
       /\ \A line_index \in 0 .. bet[k].max_payline_index :
            _get_payline_in_range(line_index)

\* C22: two distinct wagers that can each be claimed now can be claimed one
\* after the other in either order, with the same payouts, the same final
\* balances and the same wager records left; this in the current state and
\* in the state the owner leaves by withdrawing all that is available.
C22_ClaimOrder ==
  LET w == _withdraw(Store, owner, bank_balances.balance_available)
  IN  \A s0 \in {Store} \cup (IF Running(w) THEN {NextCall(w)} ELSE {}) :
        \A sender \in Accounts, k1 \in DOMAIN bet, k2 \in DOMAIN bet :
          LET c1 == _claim(s0, sender, round, k1, FALSE)
              c2 == _claim(s0, sender, round, k2, FALSE)
              c12 == _claim(NextCall(c1), sender, round, k2, FALSE)
              c21 == _claim(NextCall(c2), sender, round, k1, FALSE)
          IN  (k1 # k2 /\ Running(c1) /\ Running(c2)) =>
                /\ Running(c12)
                /\ Running(c21)
                /\ c12.ret = c2.ret
                /\ c21.ret = c1.ret
                /\ c12.bank_balances = c21.bank_balances
                /\ c12.app_balance = c21.app_balance
                /\ c12.bet = c21.bet

\* C23: a record appears under a key only by a spin for that key, holding
\* the sender, the stake, max_payline_index, the index and the claim round;
\* it disappears only by a claim of that key; while it stays its fields do
\* not change; after a spin the record of its key exists and after a claim
\* the record of its key is gone.
C23_WagerLifecycle ==
  /\ [](/\ last.op = "spin" => last.key \in DOMAIN bet
        /\ last.op = "claim" => last.key \notin DOMAIN bet
        /\ \A k \in DOMAIN bet :
             /\ k = _get_bet_key(bet[k].who, bet[k].amount, bet[k].max_payline_index,
                                 bet[k].index)
             /\ bet[k].claim_round <= round + _get_round_future_delta)
  /\ [][ \A k \in DOMAIN bet \cup DOMAIN bet' :
           /\ (k \notin DOMAIN bet /\ k \in DOMAIN bet') =>
                /\ last'.op = "spin"
                /\ last'.key = k
                /\ bet'[k] = Bet(last'.sender, k[2], k[3], k[4],
                                 round + _get_round_future_delta)
           /\ (k \in DOMAIN bet /\ k \notin DOMAIN bet') =>
                /\ last'.op = "claim"
                /\ last'.key = k
           /\ (k \in DOMAIN bet /\ k \in DOMAIN bet') => bet'[k] = bet[k] ]_vars

\* a wager was claimed and its record removed while another one, placed
\* before, is still on record
C23_Witness ==
  /\ last.op = "claim"
  /\ last.key \notin DOMAIN bet
  /\ \E k \in DOMAIN bet : k # last.key /\ bet[k].claim_round < round

\* C24: a claim that goes through returns, and reports as payout in its
\* BetClaimed event, the sum over the paylines 0 .. max_payline_index of
\* stake * multiplier of the match on that payline, on the grid of
\* sha256(block seed of the claim round || key).
C24_ClaimPayout ==
  \A sender \in Accounts, k \in DOMAIN bet, edge \in BOOLEAN :
    LET c == _claim(Store, sender, round, k, edge)
        grid == _get_grid(sha256_seed_key(_get_block_seed(bet[k].claim_round), k))
        sum[n \in 0 .. (bet[k].max_payline_index + 1)] ==
          IF n = 0 THEN 0
          ELSE sum[n - 1]
                 + bet[k].amount * _get_payout_multiplier(_match_payline(grid, n - 1))
    IN  Running(c) =>
          /\ c.ret = sum[bet[k].max_payline_index + 1]
          /\ c.event = BetClaimed(bet[k].who, bet[k].amount, bet[k].max_payline_index,
                                  bet[k].index, bet[k].claim_round,
                                  sum[bet[k].max_payline_index + 1])

\* a wager whose grid pays on payline 0 and on payline 1 can be claimed
C24_Witness ==
  \E sender \in Accounts, k \in DOMAIN bet :
    LET c == _claim(Store, sender, round, k, FALSE)
        grid == _get_grid(sha256_seed_key(_get_block_seed(bet[k].claim_round), k))
    IN  /\ Running(c)
        /\ _get_payout_multiplier(_match_payline(grid, 0)) > 0
        /\ _get_payout_multiplier(_match_payline(grid, 1)) > 0
        /\ c.ret = bet[k].amount * 10010
        /\ c.event.payout = c.ret

\* C25: whoever the caller, a claim that goes through makes one payment of
\* the payout to the bettor on record when the payout is above zero and
\* none when it is zero, then one payment of the spin cost to the caller,
\* and no other payment.
C25_ClaimPayments ==
  /\ \A sender \in Accounts, k \in DOMAIN bet, edge \in BOOLEAN :
       LET c == _claim(Store, sender, round, k, edge)
           refund == <<[receiver |-> sender, amount |-> _spin_cost]>>
       IN  Running(c) =>
             /\ c.ret > 0 =>
                  c.itxns = <<[receiver |-> bet[k].who, amount |-> c.ret]>> \o refund
             /\ c.ret = 0 => c.itxns = refund
             /\ c.app_balance = app_balance - c.ret - _spin_cost
  /\ last.op = "claim" =>
       LET refund == <<[receiver |-> last.sender, amount |-> _spin_cost]>>
       IN  /\ last.ret > 0 =>
                last.itxns = <<[receiver |-> last.key[1], amount |-> last.ret]>> \o refund
           /\ last.ret = 0 => last.itxns = refund

\* a caller claimed a winning wager of another bettor: the payout went to
\* the bettor and the fee to the caller; a wager without a win is claimable
\* too and refunds the fee alone
C25_Witness ==
  /\ last.op = "claim"
  /\ last.sender # last.key[1]
  /\ last.ret > 0
  /\ last.itxns[1].receiver = last.key[1]
  /\ last.itxns[2] = [receiver |-> last.sender, amount |-> _spin_cost]
  /\ \E sender \in Accounts, k \in DOMAIN bet :
       LET c == _claim(Store, sender, round, k, FALSE)
       IN  Running(c) /\ c.ret = 0 /\ Len(c.itxns) = 1

\* C26: for a wager on record, get_bet_grid returns the 15-symbol grid that
\* a claim of it evaluates, whoever claims, and changes nothing; it is
\* turned down while the block of the claim round is not served; and the
\* grid of a wager whose claim round has passed stays what it is through
\* every step, whatever happens to the ledger and to the wager records.
C26_GridDeterminism ==
  /\ [](\A k \in DOMAIN bet, edge \in BOOLEAN :
          LET g == _get_bet_grid(Store, round, k, edge)
          IN  /\ \A sender \in Accounts :
                   LET c == _claim(Store, sender, round, k, edge)
                   IN  Running(c) => Running(g) /\ g.grid = c.grid
              /\ Running(g) =>
                   /\ Len(g.grid) = _get_reel_count * _get_reel_window_length
                   /\ g = [Store EXCEPT !.grid = g.grid]
              /\ bet[k].claim_round >= round => g.err = "block not available")
  /\ [][ \A k \in DOMAIN bet \cap DOMAIN bet' :
           bet[k].claim_round < round =>
             _get_bet_grid(Store, bet[k].claim_round + 1, k, FALSE).grid
               = (_get_bet_grid(Store, bet[k].claim_round + 1, k, FALSE).grid)' ]_vars

\* a claim went through and another wager can be claimed: its grid is
\* returned, the same as before the claim that changed ledger and records
C26_Witness ==
  /\ last.op = "claim"
  /\ last.before # bank_balances
  /\ \E k \in DOMAIN bet, sender \in Accounts :
       LET g == _get_bet_grid(Store, round, k, FALSE)
           c == _claim(Store, sender, round, k, FALSE)
       IN  Running(g) /\ Running(c) /\ Len(g.grid) = 15 /\ g.grid = c.grid

C28_PayoutTable ==
  last.op = "get_payout_multiplier" =>
    LET symbol == last.args[1]
        count == last.args[2]
        m(sym, c) == get_payout_multiplier(sym, c).value
        below == [sym \in {"A", "B", "C"} |->
                    IF sym = "A" THEN "B" ELSE IF sym = "B" THEN "C" ELSE "D"]
    IN  /\ last.ret.err = ""
        /\ IF count < 3 \/ count > 5 \/ symbol \notin {"A", "B", "C", "D"}
             THEN last.ret.value = 0
             ELSE /\ last.ret.value > 0
                  /\ count < 5 => last.ret.value < m(symbol, count + 1)
                  /\ symbol # "D" => last.ret.value > m(below[symbol], count)

\* the multiplier of four B: above zero, below that of five B and of four
\* A, above that of four C
C28_Witness ==
  /\ last.op = "get_payout_multiplier"
  /\ last.args = <<"B", 4>>
  /\ last.ret.value > 0
  /\ last.ret.value < get_payout_multiplier("B", 5).value
  /\ last.ret.value < get_payout_multiplier("A", 4).value
  /\ last.ret.value > get_payout_multiplier("C", 4).value
  /\ get_payout_multiplier("_", 5).value = 0
  /\ get_payout_multiplier("A", 6).value = 0

C30_AdapterDeposit ==
  last.op = "token_deposit" =>
    LET deposit_amount == IF last.had_balance THEN last.amount
                          ELSE last.amount - BOX_COST_BALANCE
    IN  /\ deposit_amount > 0
        /\ last.itxns = <<[type |-> "pay", receiver |-> SlotMachineApp,
                           amount |-> deposit_amount],
                          [type |-> "appl", receiver |-> SlotMachineApp,
                           method |-> "owner_deposit", amount |-> deposit_amount]>>
        /\ app_balance = last.app_before + deposit_amount
        /\ bank_balances.balance_total = last.before.balance_total + deposit_amount
        /\ bank_balances.balance_available
             = last.before.balance_available + deposit_amount
        /\ bank_balances.balance_locked = last.before.balance_locked
        /\ last.ret = IF last.supply = 0 THEN deposit_amount * 500
                      ELSE (deposit_amount * last.supply) \div last.before.balance_total
        /\ token.totalSupply = last.supply + last.ret

\* a second deposit into the token, into a bank that also holds a direct
\* deposit: fewer shares per unit than the first one got
C30_Witness ==
  /\ last.op = "token_deposit"
  /\ last.supply > 0
  /\ last.before.balance_total > 0
  /\ last.ret > 0
  /\ last.ret < (IF last.had_balance THEN last.amount
                 ELSE last.amount - BOX_COST_BALANCE) * 500

\* C31: the stop _get_reel_tops computes for a reel is the hash value
\* modulo reel_length - (window_length + 1), so it lies in 0 ..
\* reel_length - window_length - 2, and the window read at it for the grid
\* is the three consecutive symbols from the stop on: the wrap-around
\* branch is never taken.
C31_ReelStops ==
  last.op = "get_grid" =>
    \A k \in 1 .. 5 :
      LET top == _get_reel_tops(last.args)[k]
      IN  /\ top = last.args[k] % (_get_reel_length - (_get_reel_window_length + 1))
          /\ top \in 0 .. (_get_reel_length - _get_reel_window_length - 2)
          /\ top + _get_reel_window_length <= _get_reel_length
          /\ SubSeq(last.ret.value, 3 * (k - 1) + 1, 3 * k)
               = SubSeq(_get_reel(k - 1), top + 1, top + _get_reel_window_length)

\* a grid whose first reel stops at the largest stop, 95, from a hash value
\* past the number of stops
C31_Witness ==
  /\ last.op = "get_grid"
  /\ last.args[1] = 287
  /\ _get_reel_tops(last.args)[1] = 95
  /\ last.ret.err = ""

\* C32: the grid is reel-major: for reel k in 0 .. 4 and row r in 0 .. 2,
\* cell 3k + r of the grid is the symbol at position (top_k + r) %
\* reel_length of reel k; every entry of every payline of the catalog is 0,
\* 1 or 2, so the cell 3c + payline[c] that a payline selects in column c is
\* one of that column's three cells, within 0 .. 14, and it is the cell
\* whose symbol _get_grid_payline_symbols returns.
C32_GridLayout ==
  last.op = "get_grid" =>
    LET grid == last.ret.value
        tops == _get_reel_tops(last.args)
    IN  /\ Len(grid) = 15
        /\ \A k \in 0 .. 4 : \A r \in 0 .. 2 :
             grid[3 * k + r + 1]
               = _get_reels[k * _get_reel_length
                              + ((tops[k + 1] + r) % _get_reel_length) + 1]
        /\ \A p \in 0 .. (_get_payline_count - 1) : \A c \in 0 .. 4 :
             LET row == _get_paylines[5 * p + c + 1]
                 cell == 3 * c + row
             IN  /\ row \in {0, 1, 2}
                 /\ cell \in (3 * c) .. (3 * c + 2)
                 /\ cell \in 0 .. 14
                 /\ _get_grid_payline_symbols(grid, p)[c + 1] = grid[cell + 1]

\* a grid whose five reels stop at different places and show different
\* columns
C32_Witness ==
  /\ last.op = "get_grid"
  /\ last.args = <<0, 94, 95, 96, 287>>
  /\ SubSeq(last.ret.value, 1, 3) # SubSeq(last.ret.value, 4, 6)
  /\ Len(last.ret.value) = 15

\* C33: the top tier of the payout table is the configured cap:
\* get_payout_multiplier("A", 5) is max_payout_multiplier,
\* get_payout_multiplier("A", 2) is 0, the blank pays 0 for every count, and
\* no symbol and count pay more than max_payout_multiplier.
C33_PayoutCap ==
  last.op = "get_payout_multiplier" =>
    LET symbol == last.args[1]
        count == last.args[2]
        multiplier == last.ret.value
    IN  /\ last.ret.err = ""
        /\ multiplier <= _get_max_payout_multiplier
        /\ (symbol = "A" /\ count = 5) => multiplier = _get_max_payout_multiplier
        /\ (symbol = "A" /\ count = 2) => multiplier = 0
        /\ symbol = "_" => multiplier = 0

\* the top tier is read and is the cap of the spin parameters
C33_Witness ==
  /\ last.op = "get_payout_multiplier"
  /\ last.args = <<"A", 5>>
  /\ last.ret.value = max_payout_multiplier
  /\ max_payout_multiplier > 0

\* C34: in every reachable state, whatever the order of bootstrap, deposit,
\* owner_deposit, withdraw, spin and claim, balance_locked is the sum of the
\* lockup amounts (stake * max_payout_multiplier) of the pending wagers; a
\* bootstrap that goes through while a wager is pending leaves the balances
\* as they were.
C34_LockedIsLockups ==
  LET RECURSIVE Lockups(_)
      Lockups(keys) ==
        IF keys = {} THEN 0
        ELSE LET k == CHOOSE k \in keys : TRUE
             IN  bet[k].amount * _get_max_payout_multiplier + Lockups(keys \ {k})
  IN  /\ bank_balances.balance_locked = Lockups(DOMAIN bet)
      /\ (last.op = "bootstrap" /\ DOMAIN bet # {}) =>
           /\ bank_balances.balance_locked = last.before.balance_locked
           /\ bank_balances.balance_total = last.before.balance_total
           /\ bank_balances.balance_available = last.before.balance_available

C36_FundsCoverLedger ==
  /\ app_balance >= bank_balances.balance_total
  /\ bank_balances.balance_available > 0 =>
       _withdraw(Store, owner, bank_balances.balance_available).err # "overspend"

\* C37: the whole reel is used: every position p in 0 .. reel_length - 1 of
\* every reel, such as the three positions that a window read at any offset
\* shows, is in the three rows of the window at some stop that
\* _get_reel_tops computes from a hash value, so that its symbol can appear
\* in a grid.
C37_WholeReelUsed ==
  (last.op = "get_reel_window" /\ last.ret.err = "" /\ ~last.args[2].top) =>
    LET reel == last.args[1]
        index == last.args[2].n
    IN  \A row \in 0 .. (_get_reel_window_length - 1) :
          LET p == (index + row) % _get_reel_length
          IN  \E tail \in 0 .. 287 :
                LET top == _get_reel_tops([k \in 1 .. 5 |-> tail])[reel + 1]
                IN  \E r \in 0 .. (_get_reel_window_length - 1) :
                      /\ (top + r) % _get_reel_length = p
                      /\ _get_reel_window(reel, top)[r + 1] = last.ret.value[row + 1]

C39_OwnerChanges ==
  [][/\ owner' # owner => last'.op = "transfer_ownership"
     /\ last'.op = "bootstrap" => owner' = owner]_vars

\* C40: whenever the shares a holder asks the token to withdraw pass its
\* check, amount <= balance * available / (available + locked), the amount
\* the token then requests from the bank, amount * balance_total /
\* totalSupply rounded down, is at most the bank's balance_available and
\* balance_total, so the bank's withdraw does not stop on its balance
\* checks; and a token withdrawal that goes through leaves balance_locked
\* as it was and takes the amount from balance_available and balance_total.
C40_TokenWithdraw ==
  /\ \A sender \in Accounts : \A amount \in TokenWithdrawAmounts(sender) :
       (/\ amount > 0
        /\ token.yield_bearing_source > 0
        /\ amount <= _get_max_withdrawable_amount(TokenStore, sender)) =>
         LET request == amount_to_withdraw(TokenStore, amount)
             r == token_withdraw(TokenStore, sender, amount)
         IN  /\ request.units + (IF request.whole THEN 0 ELSE 1)
                  <= bank_balances.balance_available
             /\ request.units + (IF request.whole THEN 0 ELSE 1)
                  <= bank_balances.balance_total
             /\ request.whole => r.err \notin {"insufficient balance",
                                               "amount must be greater than 0",
                                               "only the owner can call this function"}
  /\ last.op = "token_withdraw" =>
       /\ bank_balances.balance_locked = last.before.balance_locked
       /\ bank_balances.balance_available = last.before.balance_available - last.ret
       /\ bank_balances.balance_total = last.before.balance_total - last.ret
       /\ bank_balances.balance_available >= 0
       /\ last.ret > 0

\* shares were withdrawn from the token while the bank holds funds locked
\* for a pending wager: less than the holder's balance could be withdrawn
C40_Witness ==
  /\ last.op = "token_withdraw"
  /\ bank_balances.balance_locked > 0
  /\ DOMAIN bet # {}
  /\ last.ret > 0
  /\ _balanceOf(TokenStore, last.sender) > 0

====
